---- MODULE Spec2Model ----
(***************************************************************************)
(* Wallspace: layout persistence (storage.js), artwork selection           *)
(* (artwork.js, ui.js, room-view.js) and the wall model (wall.js).         *)
(*                                                                         *)
(* Conventions                                                             *)
(*   - pixel lengths are whole pixels; wallScale is a fixed-point number in *)
(*     thousandths of a pixel per inch; the text of a numeric input with   *)
(*     one decimal is the number of tenths it shows;                       *)
(*   - a JS null reference is the string Null, a null artwork is id 0;     *)
(*   - a JSON document is a record [doc, body]; JSONstringify and          *)
(*     JSONparse convert between the in-memory objects and that text.      *)
(***************************************************************************)
EXTENDS Integers, Sequences, FiniteSets, TLC

\* ------------------------------------------------------------------ bounds
MaxLayouts == 2
MaxCounter == 3
MaxOnWall == 2

\* ------------------------------------------------------- program constants
WorkspacePadding == 40
WindowPadding == 60
DefaultWidthInches == 6
DefaultLeftPx == 20
DefaultTopPx == 20
CollectionHeightInches == 11
MinSizePx == 50
UploadCols == 3
UploadWidthInches == 6
UploadGapInches == 1
UploadStartInches == 2
\* one pixel per inch, in the fixed-point unit of wallScale
ScaleUnit == 1000

\* -------------------------------------------------------------- vocabulary
Null == "null"
Today == "today"
Earlier == "earlier"
\* the images the user adds to the wall directly
Srcs == {"imgB"}
\* Date.now() when a layout is saved
Timestamps == {3}

\* naturalWidth / naturalHeight of each decoded image
NaturalRatio(src) == IF src = "imgA" THEN 2 ELSE 1

\* the viewport the page opens in: workspace.offsetWidth, window.innerHeight
WorkspaceWidth == 1000
InnerHeight == 540
\* the viewports the window is resized to
Viewports ==
  { [width |-> WorkspaceWidth, height |-> InnerHeight],
    [width |-> 1960, height |-> 1020] }

\* wall sizes and colours the user types into the inputs
WallPresets ==
  { [width |-> 96, height |-> 48, color |-> "white"],
    [width |-> 48, height |-> 24, color |-> "grey"] }
WallImages == {"bgA"}

Min(a, b) == IF a <= b THEN a ELSE b
Max(a, b) == IF a >= b THEN a ELSE b

\* ----------------------------------------------------------------- state
VARIABLES
  savedLayouts,          \* state.js: the in-memory array of layouts
  localStorage,          \* the text stored under 'wallArtLayouts'
  listed,                \* number of entries rendered in #savedLayouts
  wall,                  \* the wall inputs and the #wallContainer style
  wallScale,             \* state.js: pixels per inch
  wallBackgroundImage,   \* state.js: data URL or Null
  artworks,              \* the .artwork elements of the wall, in DOM order
  artworkCounter,        \* state.js
  artworkAspectRatios,   \* state.js: id -> ratio, 0 where the map has no entry
  pendingDecodes,        \* images whose onload has not fired yet
  selectedArtwork,       \* state.js: id of the selected artwork, 0 for null
  isPreviewMode, isDragging, isResizing,
  dialogActive,          \* #artworkDialog carries the class 'active'
  collectionItems,       \* collection.js: the uploaded images, [id, src]
  collectionCounter,     \* collection.js
  collectionStore,       \* the value stored under 'wallspace_collection'
  exportFile,            \* the last downloaded export document
  exportedFrom,          \* the collection that document was made from
  ui,                    \* what the last handler asked and told the user
  viewport,              \* workspace.offsetWidth and window.innerHeight
  guidesEnabled,         \* #showDistanceGuides is checked
  guides,                \* the lines drawn in #distanceGuidesSVG
  sidebar,               \* the artwork controls of the sidebar
  dragOffset,            \* state.js: pointer offset inside the dragged artwork
  pendingReads,          \* uploaded files whose FileReader has not fired yet
  unitsPanel             \* wall.js with a units select: its inputs and trackers

vars == << savedLayouts, localStorage, listed, wall, wallScale,
           wallBackgroundImage, artworks, artworkCounter, artworkAspectRatios,
           pendingDecodes, selectedArtwork, isPreviewMode, isDragging,
           isResizing, dialogActive, collectionItems, collectionCounter,
           collectionStore, exportFile, exportedFrom, ui, viewport,
           guidesEnabled, guides, sidebar, dragOffset, pendingReads,
           unitsPanel >>

storeVars == << savedLayouts, localStorage, listed >>
wallVars == << wall, wallScale, wallBackgroundImage >>
artVars == << artworks, artworkCounter, artworkAspectRatios, pendingDecodes,
              selectedArtwork >>
modeVars == << isPreviewMode, isDragging, isResizing, dialogActive >>
fileVars == << exportFile, exportedFrom >>
collVars == << collectionItems, collectionCounter, collectionStore >>
panelVars == << guides, sidebar, dragOffset >>
restVars == << viewport, guidesEnabled, pendingReads, unitsPanel >>

\* the working session of the user
Session == << wall, wallScale, wallBackgroundImage, artworks, selectedArtwork >>

\* ------------------------------------------------- layouts and JSON text
NoWallSettings == [width |-> 0, height |-> 0, color |-> Null, backgroundImage |-> Null]

\* {} : an object without name, wallSettings or artworks
EmptyObject ==
  [kind |-> "object", name |-> 0, wallSettings |-> NoWallSettings,
   artworks |-> <<>>, date |-> Null, id |-> 0]

\* the JSON value null as an array element
NullElement ==
  [kind |-> "null", name |-> 0, wallSettings |-> NoWallSettings,
   artworks |-> <<>>, date |-> Null, id |-> 0]

Absent == [doc |-> "absent", body |-> <<>>]
NoFile == [doc |-> "nofile", body |-> <<>>]

StringifyArtwork(a) ==
  << a.src, a.left, a.top, a.width, a.height, a.hasFrame, a.hasMatte,
     a.frameColor, a.matteColor, a.aspectRatio >>

StringifyElement(e) ==
  IF e.kind = "layout"
  THEN << "{", e.name,
          << e.wallSettings.width, e.wallSettings.height,
             e.wallSettings.color, e.wallSettings.backgroundImage >>,
          [i \in 1..Len(e.artworks) |-> StringifyArtwork(e.artworks[i])],
          e.date, e.id >>
  ELSE IF e.kind = "object" THEN << "{}" >> ELSE << "null" >>

\* JSON.stringify of an array of layouts, one encoded element per entry
JSONstringify(layouts) ==
  [doc |-> "array",
   body |-> [i \in 1..Len(layouts) |-> StringifyElement(layouts[i])]]

ParseArtwork(t) ==
  [src |-> t[1], left |-> t[2], top |-> t[3], width |-> t[4], height |-> t[5],
   hasFrame |-> t[6], hasMatte |-> t[7], frameColor |-> t[8],
   matteColor |-> t[9], aspectRatio |-> t[10]]

ParseElement(t) ==
  IF t[1] = "{"
  THEN [kind |-> "layout", name |-> t[2],
        wallSettings |-> [width |-> t[3][1], height |-> t[3][2],
                          color |-> t[3][3], backgroundImage |-> t[3][4]],
        artworks |-> [i \in 1..Len(t[4]) |-> ParseArtwork(t[4][i])],
        date |-> t[5], id |-> t[6]]
  ELSE IF t[1] = "{}" THEN EmptyObject ELSE NullElement

\* JSON.parse: throws on text that is not JSON; any other document parses
JSONparse(text) ==
  [threw |-> text.doc \in {"invalid", "absent", "nofile"},
   doc |-> text.doc,
   items |-> IF text.doc = "array"
             THEN [i \in 1..Len(text.body) |-> ParseElement(text.body[i])]
             ELSE <<>>]

\* the Array.isArray test left out
ArrayIsArrayUnchecked(parsed) == TRUE

\* Array.isArray of a parsed value
ArrayIsArray(parsed) == parsed.doc = "array"

\* the template of loadSavedLayouts reads layout.name and layout.artworks.length
Renderable(e) == e.kind = "layout"

\* entries rendered before the template throws
RenderedPrefix(layouts) ==
  IF \A i \in 1..Len(layouts) : Renderable(layouts[i])
  THEN Len(layouts)
  ELSE (CHOOSE i \in 1..Len(layouts) :
          /\ ~Renderable(layouts[i])
          /\ \A j \in 1..(i - 1) : Renderable(layouts[j])) - 1

\* loadSavedLayouts: re-read the stored text, then render the list
loadSavedLayouts(store) ==
  LET parsed == JSONparse(store)
      layouts == IF store.doc = "absent" \/ parsed.threw THEN <<>> ELSE parsed.items
  IN [layouts |-> layouts,
      listed |-> RenderedPrefix(layouts),
      threw |-> RenderedPrefix(layouts) < Len(layouts)]

\* a catch block that only logs the quota error
saveLayoutsToStorageSilent(layouts, store, ok) ==
  IF ok
  THEN [store |-> JSONstringify(layouts), ok |-> TRUE, alerts |-> {}]
  ELSE [store |-> store, ok |-> FALSE, alerts |-> {}]

\* saveLayoutsToStorage: setItem of the whole array; ok = FALSE is a quota error
saveLayoutsToStorage(layouts, store, ok) ==
  IF ok
  THEN [store |-> JSONstringify(layouts), ok |-> TRUE, alerts |-> {}]
  ELSE [store |-> store, ok |-> FALSE, alerts |-> {"saveFailed"}]

Remove(seq, index) ==
  [i \in 1..(Len(seq) - 1) |-> IF i < index THEN seq[i] ELSE seq[i + 1]]

\* what a handler asked and told the user: the confirm() answer it got
\* ("none" when it did not ask), the alerts it raised, the outcome of its
\* storage write, and the input it ran on
ReportOn(op, index, file, had, asked, alerts, write) ==
  [op |-> op, index |-> index, file |-> file, had |-> had,
   confirm |-> asked, alerts |-> alerts, write |-> write]

Report(op, asked, alerts, write) ==
  ReportOn(op, 0, NoFile, 0, asked, alerts, write)

\* the answer of the confirmation ignored
confirmIgnored(answer) == TRUE

\* confirm(message): true when the user presses OK
confirm(answer) == answer = "yes"

\* the name computed after the push position is miscounted
GalleryNameStale(layouts) == Len(layouts)

\* the name saveLayout gives the next layout: "Gallery n+1"
GalleryName(layouts) == Len(layouts) + 1

WriteResult(written) == IF written.ok THEN "ok" ELSE "failed"

\* ------------------------------------------------------------ wall model
\* toFixed(1) of inchesToCm(inches), in tenths of a centimetre
InchesToCmTenths(inches) == (inches * 254 + 5) \div 10

\* updateWall in a given viewport: scale the wall into the available space
\* and restyle #wallContainer
updateWallIn(view, w, bg) ==
  LET maxWidth == view.width - WorkspacePadding
      maxHeight == view.height - WindowPadding
      scale == Min((maxWidth * ScaleUnit) \div w.widthInches,
                   (maxHeight * ScaleUnit) \div w.heightInches)
  IN [scale |-> scale,
      wall |-> [w EXCEPT !.displayWidth = (w.widthInches * scale) \div ScaleUnit,
                         !.displayHeight = (w.heightInches * scale) \div ScaleUnit,
                         !.backgroundColor = w.color,
                         !.backgroundImage = bg]]

\* updateWall in the current viewport
updateWall(w, bg) == updateWallIn(viewport, w, bg)

\* the wall inputs as the page shows them before any edit
DefaultWall ==
  [widthInches |-> 96, heightInches |-> 48,
   widthCm |-> InchesToCmTenths(96), heightCm |-> InchesToCmTenths(48),
   color |-> "white", displayWidth |-> 0, displayHeight |-> 0,
   backgroundColor |-> Null, backgroundImage |-> Null]

\* a / b rounded to the nearest whole number, halves upwards (a >= 0, b > 0)
RoundDiv(a, b) == (2 * a + b) \div (2 * b)

unitsToPixels(inches, scale) == (inches * scale) \div ScaleUnit

\* unitsToPixels of the text of an input that shows tenths of an inch
tenthsToPixels(tenths, scale) == (tenths * scale) \div (10 * ScaleUnit)

\* pixelsToUnits(pixels, 'inches').toFixed(1), as tenths of an inch
pixelsToTenths(pixels, scale) == RoundDiv(pixels * 10 * ScaleUnit, scale)

\* ------------------------------------------------------- artwork elements
\* a freshly created .artwork element: frame and matte hidden, image shown
NewArtwork(id, src, left, top, width, height) ==
  [id |-> id, src |-> src, left |-> left, top |-> top,
   width |-> width, height |-> height,
   frameDisplay |-> "none", frameColor |-> "",
   matteDisplay |-> "none", matteColor |-> "",
   framePadding |-> 0, mattePadding |-> 0, imgW |-> 0, imgH |-> 0,
   directImg |-> "block", selected |-> FALSE]

OnWall == { artworks[i].id : i \in 1..Len(artworks) }

\* the wall with the element left in place
WithoutArtworkKept(arts, id) == arts

\* artwork.remove() of the element with this id
WithoutArtwork(arts, id) ==
  LET keep == { i \in 1..Len(arts) : arts[i].id # id }
      pos(k) == CHOOSE i \in keep : Cardinality({ j \in keep : j < i }) = k - 1
  IN [k \in 1..Cardinality(keep) |-> arts[pos(k)]]

\* selectArtwork without the loop that unmarks the others
SelectInKeepingMarks(arts, id) ==
  [i \in 1..Len(arts) |->
     IF arts[i].id = id THEN [arts[i] EXCEPT !.selected = TRUE] ELSE arts[i]]

\* selectArtwork: unmark every artwork, mark this one
SelectIn(arts, id) ==
  [i \in 1..Len(arts) |-> [arts[i] EXCEPT !.selected = (arts[i].id = id)]]

\* classList.remove('selected') on one element
UnmarkIn(arts, id) ==
  [i \in 1..Len(arts) |->
     IF arts[i].id = id THEN [arts[i] EXCEPT !.selected = FALSE] ELSE arts[i]]

\* the entry with the size of the image container in place of the element's
SnapshotImageBox(a, ratios) ==
  [src |-> a.src, left |-> a.left, top |-> a.top,
   width |-> a.imgW, height |-> a.imgH,
   hasFrame |-> (a.frameDisplay # "none" /\ a.frameColor # "transparent"),
   hasMatte |-> (a.matteDisplay # "none" /\ a.matteColor # "transparent"),
   frameColor |-> a.frameColor, matteColor |-> a.matteColor,
   aspectRatio |-> IF ratios[a.id] # 0 THEN ratios[a.id] ELSE 1]

\* the entry saveLayout pushes for one artwork element
Snapshot(a, ratios) ==
  [src |-> a.src, left |-> a.left, top |-> a.top,
   width |-> a.width, height |-> a.height,
   hasFrame |-> (a.frameDisplay # "none" /\ a.frameColor # "transparent"),
   hasMatte |-> (a.matteDisplay # "none" /\ a.matteColor # "transparent"),
   frameColor |-> a.frameColor, matteColor |-> a.matteColor,
   aspectRatio |-> IF ratios[a.id] # 0 THEN ratios[a.id] ELSE 1]

\* the element built with the counter read before its increment
RestoredPostIncrement(d, id) ==
  [id |-> id - 1, src |-> d.src, left |-> d.left, top |-> d.top,
   width |-> d.width, height |-> d.height,
   frameDisplay |-> IF d.hasFrame THEN "flex" ELSE "none",
   frameColor |-> IF d.frameColor # "" THEN d.frameColor ELSE "transparent",
   matteDisplay |-> IF d.hasMatte THEN "flex" ELSE "none",
   matteColor |-> IF d.matteColor # "" THEN d.matteColor ELSE "transparent",
   framePadding |-> 0, mattePadding |-> 0, imgW |-> 0, imgH |-> 0,
   directImg |-> IF d.hasFrame \/ d.hasMatte THEN "none" ELSE "block",
   selected |-> FALSE]

\* the element loadLayout builds from one saved entry
Restored(d, id) ==
  [id |-> id, src |-> d.src, left |-> d.left, top |-> d.top,
   width |-> d.width, height |-> d.height,
   frameDisplay |-> IF d.hasFrame THEN "flex" ELSE "none",
   frameColor |-> IF d.frameColor # "" THEN d.frameColor ELSE "transparent",
   matteDisplay |-> IF d.hasMatte THEN "flex" ELSE "none",
   matteColor |-> IF d.matteColor # "" THEN d.matteColor ELSE "transparent",
   framePadding |-> 0, mattePadding |-> 0, imgW |-> 0, imgH |-> 0,
   directImg |-> IF d.hasFrame \/ d.hasMatte THEN "none" ELSE "block",
   selected |-> FALSE]

\* loadLayout without the call that clears the wall
clearArtworksKept(arts) == arts

\* clearArtworks: every .artwork removed, nothing asked
clearArtworks(arts) == <<>>

\* ------------------------------------------------------- distance guides
\* getBoundingClientRect of an artwork relative to the wall
Box(a) ==
  [left |-> a.left, top |-> a.top, right |-> a.left + a.width,
   bottom |-> a.top + a.height, width |-> a.width, height |-> a.height]

Element(arts, id) == arts[CHOOSE i \in 1..Len(arts) : arts[i].id = id]

Sides == {"left", "right", "top", "bottom"}

\* the distance from the selected box s to the box o on one side
Gap(side, s, o) ==
  CASE side = "left" -> s.left - o.right
    [] side = "right" -> o.left - s.right
    [] side = "top" -> s.top - o.bottom
    [] side = "bottom" -> o.top - s.bottom

\* the direction test with the near edges of both boxes swapped for the far
\* edge of the other box
BeyondFarEdge(side, s, o) ==
  CASE side = "left" -> o.left <= s.left
    [] side = "right" -> o.right >= s.right
    [] side = "top" -> o.top <= s.top
    [] side = "bottom" -> o.bottom >= s.bottom

\* otherRight <= artworkLeft, otherLeft >= artworkRight, otherBottom <=
\* artworkTop, otherTop >= artworkBottom
Beyond(side, s, o) ==
  CASE side = "left" -> o.right <= s.left
    [] side = "right" -> o.left >= s.right
    [] side = "top" -> o.bottom <= s.top
    [] side = "bottom" -> o.top >= s.bottom

verticalOverlap(s, o) == Max(0, Min(s.bottom, o.bottom) - Max(s.top, o.top))
horizontalOverlap(s, o) == Max(0, Min(s.right, o.right) - Max(s.left, o.left))

\* the overlap on the axis perpendicular to the side
Facing(side, s, o) ==
  IF side \in {"left", "right"} THEN verticalOverlap(s, o) ELSE horizontalOverlap(s, o)

Candidates(side, arts, sel) ==
  { i \in 1..Len(arts) :
      /\ arts[i].id # sel
      /\ Beyond(side, Box(Element(arts, sel)), Box(arts[i]))
      /\ Facing(side, Box(Element(arts, sel)), Box(arts[i])) > 0 }

\* the forEach without the distance test: the last qualifying artwork in DOM
\* order; 0 when no artwork qualifies
NearestLast(side, arts, sel) ==
  LET c == Candidates(side, arts, sel)
  IN IF c = {} THEN 0 ELSE CHOOSE i \in c : \A j \in c : j <= i

\* the forEach keeps the first artwork in DOM order with the smallest distance;
\* 0 when no artwork qualifies
Nearest(side, arts, sel) ==
  LET s == Box(Element(arts, sel))
      c == Candidates(side, arts, sel)
  IN IF c = {} THEN 0
     ELSE CHOOSE i \in c :
            \A j \in c :
              \/ Gap(side, s, Box(arts[i])) < Gap(side, s, Box(arts[j]))
              \/ Gap(side, s, Box(arts[i])) = Gap(side, s, Box(arts[j])) /\ i <= j

\* the gap between the selected box and the wall edge on one side
WallGap(side, s, w) ==
  CASE side = "left" -> s.left
    [] side = "right" -> w.displayWidth - s.right
    [] side = "top" -> s.top
    [] side = "bottom" -> w.displayHeight - s.bottom

\* drawGuide: a line and its label; coordinates in quarter pixels, the label
\* in whole inches and whole centimetres
drawGuide(side, to, x1, y1, x2, y2, dist, scale) ==
  [side |-> side, to |-> to, x1 |-> x1, y1 |-> y1, x2 |-> x2, y2 |-> y2,
   dist |-> dist,
   inches |-> RoundDiv(dist * ScaleUnit, scale),
   cm |-> RoundDiv(dist * ScaleUnit * 254, scale * 100)]

\* the guide of one side: to the nearest artwork, else to the wall edge when
\* the artwork does not touch it
SideGuide(side, arts, sel, w, scale) ==
  LET s == Box(Element(arts, sel))
      n == Nearest(side, arts, sel)
      o == Box(arts[n])
      centerX == 4 * s.left + 2 * s.width
      centerY == 4 * s.top + 2 * s.height
      guideX == 2 * (s.left + o.left) + s.width + o.width
      guideY == 2 * (s.top + o.top) + s.height + o.height
  IN IF n # 0
     THEN { CASE side = "left" ->
                   drawGuide(side, arts[n].id, 4 * o.right, guideY, 4 * s.left, guideY,
                             Gap(side, s, o), scale)
              [] side = "right" ->
                   drawGuide(side, arts[n].id, 4 * s.right, guideY, 4 * o.left, guideY,
                             Gap(side, s, o), scale)
              [] side = "top" ->
                   drawGuide(side, arts[n].id, guideX, 4 * o.bottom, guideX, 4 * s.top,
                             Gap(side, s, o), scale)
              [] side = "bottom" ->
                   drawGuide(side, arts[n].id, guideX, 4 * s.bottom, guideX, 4 * o.top,
                             Gap(side, s, o), scale) }
     ELSE IF WallGap(side, s, w) > 0
     THEN { CASE side = "left" ->
                   drawGuide(side, 0, 0, centerY, 4 * s.left, centerY, s.left, scale)
              [] side = "right" ->
                   drawGuide(side, 0, 4 * s.right, centerY, 4 * w.displayWidth, centerY,
                             w.displayWidth - s.right, scale)
              [] side = "top" ->
                   drawGuide(side, 0, centerX, 0, centerX, 4 * s.top, s.top, scale)
              [] side = "bottom" ->
                   drawGuide(side, 0, centerX, 4 * s.bottom, centerX, 4 * w.displayHeight,
                             w.displayHeight - s.bottom, scale) }
     ELSE {}

\* updateDistanceGuides: clear the svg, then draw the four guides of the
\* selected artwork when the guides are enabled
updateDistanceGuides(arts, sel, enabled, w, scale) ==
  IF ~enabled \/ sel = 0
  THEN {}
  ELSE UNION { SideGuide(side, arts, sel, w, scale) : side \in Sides }

\* ------------------------------------------------------ sidebar controls
\* the controls as the page shows them before any artwork is selected;
\* sizes are the text of the inputs, in tenths of an inch
DefaultSidebar ==
  [hasFrame |-> FALSE, hasMatte |-> FALSE,
   frameColor |-> "black", frameSize |-> 10,
   matteColor |-> "ivory", matteSize |-> 20,
   width |-> 60, height |-> 60, maintainRatio |-> TRUE]

\* updateControlsFromArtwork: the checkboxes and the size inputs follow the
\* selected element
updateControlsFromArtwork(a, side, scale) ==
  [side EXCEPT
     !.hasMatte = (a.matteDisplay # "none" /\ a.matteColor # "transparent"),
     !.hasFrame = (a.frameDisplay # "none" /\ a.frameColor # "transparent"),
     !.width = IF a.imgW # 0 THEN pixelsToTenths(a.imgW, scale)
               ELSE pixelsToTenths(a.width, scale),
     !.height = IF a.imgW # 0 THEN pixelsToTenths(a.imgH, scale)
                ELSE pixelsToTenths(a.height, scale)]

\* ------------------------------------------------------- sample documents
FramedEntry ==
  [src |-> "imgA", left |-> 40, top |-> 60, width |-> 140, height |-> 80,
   hasFrame |-> TRUE, hasMatte |-> FALSE, frameColor |-> "black",
   matteColor |-> "transparent", aspectRatio |-> 2]

MattedEntry ==
  [src |-> "imgB", left |-> 200, top |-> 20, width |-> 100, height |-> 100,
   hasFrame |-> FALSE, hasMatte |-> TRUE, frameColor |-> "transparent",
   matteColor |-> "ivory", aspectRatio |-> 1]

\* a layout saved by an earlier session
SampleA ==
  [kind |-> "layout", name |-> 1,
   wallSettings |-> [width |-> 48, height |-> 24, color |-> "grey",
                     backgroundImage |-> "bgA"],
   artworks |-> << FramedEntry >>, date |-> Earlier, id |-> 1]

\* a layout exported on another device
SampleB ==
  [kind |-> "layout", name |-> 1,
   wallSettings |-> [width |-> 96, height |-> 48, color |-> "white",
                     backgroundImage |-> Null],
   artworks |-> << MattedEntry, FramedEntry >>, date |-> Earlier, id |-> 2]

\* what 'wallArtLayouts' may hold when the page opens
InitStores ==
  { Absent, JSONstringify(<< SampleA >>), JSONstringify(<< SampleA, SampleB >>) }

\* the files the user may pick in the import dialog
ImportFiles ==
  { NoFile,
    [doc |-> "invalid", body |-> <<>>],
    [doc |-> "object", body |-> <<>>],
    [doc |-> "number", body |-> <<>>],
    [doc |-> "string", body |-> <<>>],
    [doc |-> "null", body |-> <<>>],
    JSONstringify(<<>>),
    JSONstringify(<< SampleB >>),
    JSONstringify(<< SampleA, SampleB >>),
    JSONstringify(<< EmptyObject >>),
    JSONstringify(<< SampleB, NullElement >>) }

DropPoints == { [x |-> 100, y |-> 100] }

\* where inside an artwork the pointer goes down: its top left corner, or a
\* point further in
CornerGrab == { [x |-> 0, y |-> 0] }
GrabPoints == CornerGrab \cup { [x |-> 10, y |-> 10] }

\* wall.js with a units select: the select, the two size inputs (tenths of
\* the shown unit), currentUnits and the last applied values
DefaultUnitsPanel ==
  [units |-> "inches", width |-> 960, height |-> 480, currentUnits |-> "inches",
   lastAppliedWidth |-> 960, lastAppliedHeight |-> 480,
   lastAppliedUnits |-> "inches", hasChanges |-> FALSE]

InitCollection == << [id |-> 1, src |-> "imgA"] >>

\* ------------------------------------------------------------------ Init
Init ==
  /\ viewport = [width |-> WorkspaceWidth, height |-> InnerHeight]
  /\ guidesEnabled = FALSE
  /\ guides = {}
  /\ sidebar = DefaultSidebar
  /\ dragOffset = [x |-> 0, y |-> 0]
  /\ pendingReads = {}
  /\ unitsPanel = DefaultUnitsPanel
  /\ localStorage \in InitStores
  /\ savedLayouts = loadSavedLayouts(localStorage).layouts
  /\ listed = loadSavedLayouts(localStorage).listed
  /\ wall = updateWall(DefaultWall, Null).wall
  /\ wallScale = updateWall(DefaultWall, Null).scale
  /\ wallBackgroundImage = Null
  /\ artworks = <<>>
  /\ artworkCounter = 0
  /\ artworkAspectRatios = [id \in 1..MaxCounter |-> 0]
  /\ pendingDecodes = {}
  /\ selectedArtwork = 0
  /\ isPreviewMode = FALSE
  /\ isDragging = FALSE
  /\ isResizing = FALSE
  /\ dialogActive = FALSE
  /\ collectionItems = InitCollection
  /\ collectionCounter = 1
  /\ collectionStore = [items |-> InitCollection, counter |-> 1]
  /\ exportFile = NoFile
  /\ exportedFrom = <<>>
  /\ ui = Report("init", "none", {}, "none")

\* ------------------------------------------------------ storage handlers
\* saveLayout: snapshot the wall and the artworks, push, persist, re-render
SaveLayout(t, ok) ==
  /\ Len(savedLayouts) < MaxLayouts
  /\ LET newLayout ==
           [kind |-> "layout", name |-> GalleryName(savedLayouts),
            wallSettings |-> [width |-> wall.widthInches,
                              height |-> wall.heightInches,
                              color |-> wall.color,
                              backgroundImage |-> wallBackgroundImage],
            artworks |-> [i \in 1..Len(artworks) |->
                            Snapshot(artworks[i], artworkAspectRatios)],
            date |-> Today, id |-> t]
         pushed == Append(savedLayouts, newLayout)
         written == saveLayoutsToStorage(pushed, localStorage, ok)
         loaded == loadSavedLayouts(written.store)
     IN /\ localStorage' = written.store
        /\ savedLayouts' = IF written.ok THEN loaded.layouts ELSE pushed
        /\ listed' = IF written.ok THEN loaded.listed ELSE listed
        /\ ui' = Report("saveLayout", "none", written.alerts, WriteResult(written))
  /\ UNCHANGED << wallVars, artVars, modeVars, collVars, fileVars, panelVars,
                  restVars >>

\* deleteLayout: confirm, splice, persist, re-read and re-render
DeleteLayout(index, answer, ok) ==
  /\ index \in 1..listed
  /\ IF confirm(answer)
     THEN LET spliced == Remove(savedLayouts, index)
              written == saveLayoutsToStorage(spliced, localStorage, ok)
              loaded == loadSavedLayouts(written.store)
          IN /\ localStorage' = written.store
             /\ savedLayouts' = loaded.layouts
             /\ listed' = loaded.listed
             /\ ui' = ReportOn("deleteLayout", index, NoFile, 0, answer,
                             written.alerts, WriteResult(written))
     ELSE /\ UNCHANGED storeVars
          /\ ui' = ReportOn("deleteLayout", index, NoFile, 0, answer, {}, "none")
  /\ UNCHANGED << wallVars, artVars, modeVars, collVars, fileVars, panelVars,
                  restVars >>

\* exportLayouts: download JSON.stringify(savedLayouts, null, 2)
ExportLayouts ==
  /\ exportFile' = JSONstringify(savedLayouts)
  /\ exportedFrom' = savedLayouts
  /\ ui' = Report("exportLayouts", "none", {"exportOk"}, "none")
  /\ UNCHANGED << storeVars, wallVars, artVars, modeVars, collVars, panelVars,
                  restVars >>

\* importLayouts: the reader.onload callback on the text of the chosen file
ImportLayouts(file, answer, ok) ==
  /\ LET parsed == JSONparse(file)
     IN IF file = NoFile
        THEN /\ UNCHANGED storeVars
             /\ ui' = Report("importLayouts", "none", {}, "none")
        ELSE IF parsed.threw \/ ~ArrayIsArray(parsed)
        THEN /\ UNCHANGED storeVars
             /\ ui' = ReportOn("importLayouts", 0, file, 0, "none", {"importError"}, "none")
        ELSE IF ~confirm(answer)
        THEN /\ UNCHANGED storeVars
             /\ ui' = ReportOn("importLayouts", 0, file, 0, answer, {}, "none")
        ELSE LET pushed == savedLayouts \o parsed.items
                 written == saveLayoutsToStorage(pushed, localStorage, ok)
                 loaded == loadSavedLayouts(written.store)
             IN /\ Len(pushed) <= MaxLayouts
                /\ localStorage' = written.store
                /\ savedLayouts' = loaded.layouts
                /\ listed' = loaded.listed
                /\ ui' = ReportOn("importLayouts", 0, file, 0, answer,
                                written.alerts \cup
                                  (IF loaded.threw THEN {"importError"}
                                                   ELSE {"importOk"}),
                                WriteResult(written))
  /\ UNCHANGED << wallVars, artVars, modeVars, collVars, fileVars, panelVars,
                  restVars >>

\* loadLayout: restore the wall, drop the artworks, rebuild them from the entry
LoadLayout(index) ==
  /\ index \in 1..listed
  /\ LET layout == savedLayouts[index]
         ws == layout.wallSettings
         n == Len(layout.artworks)
         bg == IF ws.backgroundImage # Null THEN ws.backgroundImage ELSE Null
         inputs == [wall EXCEPT !.widthInches = ws.width,
                                !.widthCm = InchesToCmTenths(ws.width),
                                !.heightInches = ws.height,
                                !.heightCm = InchesToCmTenths(ws.height),
                                !.color = ws.color]
         updated == updateWall(inputs, bg)
         cleared == clearArtworks(artworks)
     IN /\ artworkCounter + n <= MaxCounter
        /\ wallBackgroundImage' = bg
        /\ wall' = updated.wall
        /\ wallScale' = updated.scale
        /\ artworks' = cleared \o
                         [i \in 1..n |-> Restored(layout.artworks[i], artworkCounter + i)]
        /\ artworkCounter' = artworkCounter + n
        /\ artworkAspectRatios' =
             [id \in DOMAIN artworkAspectRatios |->
                IF /\ id \in (artworkCounter + 1)..(artworkCounter + n)
                   /\ layout.artworks[id - artworkCounter].aspectRatio # 0
                THEN layout.artworks[id - artworkCounter].aspectRatio
                ELSE artworkAspectRatios[id]]
        /\ selectedArtwork' = 0
        /\ dialogActive' = FALSE
  /\ ui' = ReportOn("loadLayout", index, NoFile, Len(artworks), "none", {}, "none")
  /\ UNCHANGED << storeVars, pendingDecodes, isPreviewMode, isDragging,
                  isResizing, collVars, fileVars, panelVars, restVars >>

\* clearWall: ask, then remove every artwork and drop the selection
ClearWall(answer) ==
  /\ IF Len(artworks) > 0
     THEN IF confirm(answer)
          THEN /\ artworks' = <<>>
               /\ selectedArtwork' = 0
               /\ dialogActive' = FALSE
               /\ ui' = Report("clearWall", answer, {}, "none")
          ELSE /\ UNCHANGED << artworks, selectedArtwork, dialogActive >>
               /\ ui' = Report("clearWall", answer, {}, "none")
     ELSE /\ UNCHANGED << artworks, selectedArtwork, dialogActive >>
          /\ ui' = Report("clearWall", "none", {}, "none")
  /\ UNCHANGED << storeVars, wallVars, artworkCounter, artworkAspectRatios,
                  pendingDecodes, isPreviewMode, isDragging, isResizing,
                  collVars, fileVars, panelVars, restVars >>

\* ------------------------------------------------------ artwork handlers
\* addToWall: a 6 inch square placeholder at (20, 20); the decode is pending
AddToWall(src) ==
  /\ artworkCounter < MaxCounter
  /\ Len(artworks) < MaxOnWall
  /\ artworkCounter' = artworkCounter + 1
  /\ artworks' = Append(artworks,
                   NewArtwork(artworkCounter + 1, src, DefaultLeftPx, DefaultTopPx,
                              unitsToPixels(DefaultWidthInches, wallScale),
                              unitsToPixels(DefaultWidthInches, wallScale)))
  /\ pendingDecodes' = pendingDecodes \cup
       { [id |-> artworkCounter + 1, src |-> src, from |-> "addToWall",
          x |-> 0, y |-> 0, heightPx |-> 0] }
  /\ ui' = Report("addToWall", "none", {}, "none")
  /\ UNCHANGED << storeVars, wallVars, artworkAspectRatios, selectedArtwork,
                  modeVars, collVars, fileVars, panelVars, restVars >>

\* the files of one upload through the artwork file input
Uploads == { << "imgA", "imgB" >> }

\* handleImageUpload: count the artworks on the wall, start one FileReader
\* per file
HandleImageUpload(files) ==
  /\ LET reads == { [existing |-> Len(artworks), index |-> i - 1, src |-> files[i]] :
                      i \in 1..Len(files) }
     IN /\ reads \cap pendingReads = {}
        /\ pendingReads' = pendingReads \cup reads
  /\ ui' = Report("upload", "none", {}, "none")
  /\ UNCHANGED << storeVars, wallVars, artVars, modeVars, collVars, fileVars,
                  panelVars, viewport, guidesEnabled, unitsPanel >>

\* reader.onload of one uploaded file: the artwork enters the wall in its
\* grid cell as a 6 inch square, the decode is pending
FileRead(r) ==
  /\ r \in pendingReads
  /\ artworkCounter < MaxCounter
  /\ Len(artworks) < MaxOnWall
  /\ LET totalIndex == r.existing + r.index
         row == totalIndex \div UploadCols
         col == totalIndex % UploadCols
         xInches == UploadStartInches + col * (UploadWidthInches + UploadGapInches)
         yInches == UploadStartInches + row * (UploadWidthInches + UploadGapInches)
         id == artworkCounter + 1
     IN /\ artworkCounter' = id
        /\ artworks' = Append(artworks,
                         NewArtwork(id, r.src, unitsToPixels(xInches, wallScale),
                                    unitsToPixels(yInches, wallScale),
                                    unitsToPixels(UploadWidthInches, wallScale),
                                    unitsToPixels(UploadWidthInches, wallScale)))
        /\ pendingDecodes' = pendingDecodes \cup
             { [id |-> id, src |-> r.src, from |-> "upload",
                x |-> 0, y |-> 0, heightPx |-> 0] }
  /\ pendingReads' = pendingReads \ {r}
  /\ ui' = Report("fileRead", "none", {}, "none")
  /\ UNCHANGED << storeVars, wallVars, artworkAspectRatios, selectedArtwork,
                  modeVars, collVars, fileVars, panelVars, viewport,
                  guidesEnabled, unitsPanel >>

\* the style a decode completion writes on its artwork element
Decoded(a, d, scale, w) ==
  LET ratio == NaturalRatio(d.src)
  IN IF d.from \in {"addToWall", "upload"}
     THEN [a EXCEPT !.width = unitsToPixels(DefaultWidthInches, scale),
                    !.height = unitsToPixels(DefaultWidthInches \div ratio, scale)]
     ELSE LET widthPx == unitsToPixels(CollectionHeightInches * ratio, scale)
              centeredX == Max(0, d.x - widthPx \div 2)
              centeredY == Max(0, d.y - d.heightPx \div 2)
              maxX == w.displayWidth - widthPx
              maxY == w.displayHeight - d.heightPx
          IN [a EXCEPT !.width = widthPx, !.height = d.heightPx,
                       !.left = Min(centeredX, maxX),
                       !.top = Min(centeredY, maxY)]

\* tempImg.onload: record the aspect ratio and resize the element
DecodeComplete(d) ==
  /\ d \in pendingDecodes
  /\ pendingDecodes' = pendingDecodes \ {d}
  /\ artworkAspectRatios' = [artworkAspectRatios EXCEPT ![d.id] = NaturalRatio(d.src)]
  /\ artworks' = [i \in 1..Len(artworks) |->
                    IF artworks[i].id = d.id
                    THEN Decoded(artworks[i], d, wallScale, wall)
                    ELSE artworks[i]]
  /\ ui' = Report("decode", "none", {}, "none")
  /\ UNCHANGED << storeVars, wallVars, artworkCounter, selectedArtwork,
                  modeVars, collVars, fileVars, panelVars, restVars >>

\* drop of a collection item on the wall: createArtworkFromCollection
DropFromCollection(item, p) ==
  /\ artworkCounter < MaxCounter
  /\ Len(artworks) < MaxOnWall
  /\ \E k \in 1..Len(collectionItems) : collectionItems[k] = item
  /\ LET id == artworkCounter + 1
         heightPx == unitsToPixels(CollectionHeightInches, wallScale)
         created == NewArtwork(id, item.src, Max(0, p.x - heightPx \div 2), p.y,
                               heightPx, heightPx)
     IN /\ artworkCounter' = id
        /\ artworks' = SelectIn(Append(artworks, created), id)
        /\ selectedArtwork' = id
        /\ sidebar' = updateControlsFromArtwork(created, sidebar, wallScale)
        /\ guides' = updateDistanceGuides(artworks', id, guidesEnabled, wall, wallScale)
        /\ pendingDecodes' = pendingDecodes \cup
             { [id |-> id, src |-> item.src, from |-> "collection",
                x |-> p.x, y |-> p.y, heightPx |-> heightPx] }
  /\ ui' = Report("drop", "none", {}, "none")
  /\ UNCHANGED << storeVars, wallVars, artworkAspectRatios, modeVars,
                  collVars, fileVars, dragOffset, restVars >>

\* deleteFromCollection: filter, re-render, saveCollection; nothing is asked
DeleteFromCollection(itemId, ok) ==
  /\ \E k \in 1..Len(collectionItems) : collectionItems[k].id = itemId
  /\ collectionItems' = SelectSeq(collectionItems, LAMBDA it : it.id # itemId)
  /\ collectionStore' = IF ok
                        THEN [items |-> collectionItems', counter |-> collectionCounter]
                        ELSE collectionStore
  /\ ui' = Report("deleteFromCollection", "none",
                  IF ok THEN {} ELSE {"collectionFull"},
                  IF ok THEN "ok" ELSE "failed")
  /\ UNCHANGED << storeVars, wallVars, artVars, modeVars, collectionCounter,
                  fileVars, panelVars, restVars >>

\* mousedown on an artwork (setupArtworkEvents), then selectArtwork; grab is
\* the pointer position inside the artwork
MouseDown(id, onHandle, grab) ==
  /\ id \in OnWall
  /\ IF isPreviewMode
     THEN UNCHANGED << artworks, selectedArtwork, isDragging, isResizing,
                       panelVars >>
     ELSE /\ isResizing' = IF onHandle THEN TRUE ELSE isResizing
          /\ isDragging' = IF onHandle THEN isDragging ELSE TRUE
          /\ dragOffset' = IF onHandle THEN dragOffset ELSE grab
          /\ artworks' = SelectIn(artworks, id)
          /\ selectedArtwork' = id
          /\ sidebar' = updateControlsFromArtwork(Element(artworks, id), sidebar,
                                                  wallScale)
          /\ guides' = updateDistanceGuides(artworks', id, guidesEnabled, wall,
                                            wallScale)
  /\ ui' = Report("mousedown", "none", {}, "none")
  /\ UNCHANGED << storeVars, wallVars, artworkCounter, artworkAspectRatios,
                  pendingDecodes, isPreviewMode, dialogActive, collVars, fileVars,
                  restVars >>

\* mouseup on the document
MouseUp ==
  /\ IF isPreviewMode
     THEN UNCHANGED << isDragging, isResizing >>
     ELSE /\ isDragging' = FALSE
          /\ isResizing' = FALSE
  /\ ui' = Report("mouseup", "none", {}, "none")
  /\ UNCHANGED << storeVars, wallVars, artVars, isPreviewMode, dialogActive,
                  collVars, fileVars, panelVars, restVars >>

\* click on the document outside the dialog and outside the selected artwork
ClickOutside ==
  /\ IF ~isPreviewMode /\ dialogActive
     THEN /\ dialogActive' = FALSE
          /\ artworks' = UnmarkIn(artworks, selectedArtwork)
          /\ selectedArtwork' = 0
          /\ guides' = updateDistanceGuides(artworks', 0, guidesEnabled, wall,
                                            wallScale)
     ELSE UNCHANGED << dialogActive, artworks, selectedArtwork, guides >>
  /\ ui' = Report("click", "none", {}, "none")
  /\ UNCHANGED << storeVars, wallVars, artworkCounter, artworkAspectRatios,
                  pendingDecodes, isPreviewMode, isDragging, isResizing,
                  collVars, fileVars, sidebar, dragOffset, restVars >>

\* deleteSelected: remove the selected element and clear the selection
DeleteSelected ==
  /\ IF selectedArtwork # 0
     THEN /\ artworks' = WithoutArtwork(artworks, selectedArtwork)
          /\ selectedArtwork' = 0
          /\ guides' = updateDistanceGuides(artworks', 0, guidesEnabled, wall,
                                            wallScale)
     ELSE UNCHANGED << artworks, selectedArtwork, guides >>
  /\ ui' = Report("deleteSelected", "none", {}, "none")
  /\ UNCHANGED << storeVars, wallVars, artworkCounter, artworkAspectRatios,
                  pendingDecodes, modeVars, collVars, fileVars, sidebar,
                  dragOffset, restVars >>

\* toggleRoomView: entering the preview hides the dialog and the mark
ToggleRoomView ==
  /\ isPreviewMode' = ~isPreviewMode
  /\ IF ~isPreviewMode
     THEN /\ dialogActive' = FALSE
          /\ artworks' = UnmarkIn(artworks, selectedArtwork)
          /\ isDragging' = FALSE
          /\ isResizing' = FALSE
     ELSE UNCHANGED << dialogActive, artworks, isDragging, isResizing >>
  /\ ui' = Report("toggleRoomView", "none", {}, "none")
  /\ UNCHANGED << storeVars, wallVars, artworkCounter, artworkAspectRatios,
                  pendingDecodes, selectedArtwork, collVars, fileVars, panelVars,
                  restVars >>

\* --------------------------------------------------------- wall handlers
\* the user types a size and a colour, the cm mirrors follow, updateWall runs
EditWall(p) ==
  /\ LET inputs == [wall EXCEPT !.widthInches = p.width,
                                !.widthCm = InchesToCmTenths(p.width),
                                !.heightInches = p.height,
                                !.heightCm = InchesToCmTenths(p.height),
                                !.color = p.color]
     IN /\ wall' = updateWall(inputs, wallBackgroundImage).wall
        /\ wallScale' = updateWall(inputs, wallBackgroundImage).scale
  /\ ui' = Report("editWall", "none", {}, "none")
  /\ UNCHANGED << storeVars, wallBackgroundImage, artVars, modeVars, collVars,
                  fileVars, panelVars, restVars >>

\* handleWallImageUpload (reader.onload) and removeWallImage
SetWallImage(img) ==
  /\ wallBackgroundImage' = img
  /\ wall' = updateWall(wall, img).wall
  /\ wallScale' = updateWall(wall, img).scale
  /\ ui' = Report("wallImage", "none", {}, "none")
  /\ UNCHANGED << storeVars, artVars, modeVars, collVars, fileVars, panelVars,
                  restVars >>

\* window resize listener of ui.js: updateWall in the new viewport
WindowResize(view) ==
  /\ view # viewport
  /\ viewport' = view
  /\ wall' = updateWallIn(view, wall, wallBackgroundImage).wall
  /\ wallScale' = updateWallIn(view, wall, wallBackgroundImage).scale
  /\ ui' = Report("windowResize", "none", {}, "none")
  /\ UNCHANGED << storeVars, wallBackgroundImage, artVars, modeVars, collVars,
                  fileVars, panelVars, guidesEnabled, pendingReads, unitsPanel >>

\* ------------------------------------- wall.js with the rescale (part_002)
\* wall sizes typed into that revision; the last one fills the viewport the
\* page opens in at one pixel per inch
RescalePresets == WallPresets \cup { [width |-> 960, height |-> 480, color |-> "white"] }

\* one artwork multiplied by scaleRatio = wallScale / oldWallScale
Rescaled(a, oldScale, newScale) ==
  [a EXCEPT !.width = (a.width * newScale) \div oldScale,
            !.height = (a.height * newScale) \div oldScale,
            !.left = (a.left * newScale) \div oldScale,
            !.top = (a.top * newScale) \div oldScale,
            !.imgW = (a.imgW * newScale) \div oldScale,
            !.imgH = (a.imgH * newScale) \div oldScale,
            !.framePadding = (a.framePadding * newScale) \div oldScale,
            !.mattePadding = (a.mattePadding * newScale) \div oldScale]

\* the test that guards the rescale
ScaleChanged(oldScale, newScale) == oldScale # newScale /\ oldScale # ScaleUnit

\* updateWall of that revision: restyle the wall, then rescale the artworks,
\* refresh the controls and redraw the guides when the scale has changed
updateWallRescaling(view, w) ==
  LET u == updateWallIn(view, w, w.backgroundImage)
      changed == ScaleChanged(wallScale, u.scale)
      arts == IF changed
              THEN [i \in 1..Len(artworks) |-> Rescaled(artworks[i], wallScale, u.scale)]
              ELSE artworks
  IN [scale |-> u.scale, wall |-> u.wall, artworks |-> arts,
      sidebar |-> IF changed /\ selectedArtwork # 0
                  THEN updateControlsFromArtwork(Element(arts, selectedArtwork),
                                                 sidebar, u.scale)
                  ELSE sidebar,
      guides |-> IF changed
                 THEN updateDistanceGuides(arts, selectedArtwork, guidesEnabled,
                                           u.wall, u.scale)
                 ELSE guides]

\* the user types a wall size in inches and that revision's updateWall runs
EditWallRescaling(p) ==
  /\ LET inputs == [wall EXCEPT !.widthInches = p.width,
                                !.widthCm = InchesToCmTenths(p.width),
                                !.heightInches = p.height,
                                !.heightCm = InchesToCmTenths(p.height),
                                !.color = p.color]
         updated == updateWallRescaling(viewport, inputs)
     IN /\ wall' = updated.wall
        /\ wallScale' = updated.scale
        /\ artworks' = updated.artworks
        /\ sidebar' = updated.sidebar
        /\ guides' = updated.guides
  /\ ui' = Report("updateWall", "none", {}, "none")
  /\ UNCHANGED << storeVars, wallBackgroundImage, artworkCounter,
                  artworkAspectRatios, pendingDecodes, selectedArtwork, modeVars,
                  collVars, fileVars, dragOffset, restVars >>

\* the window is resized and that revision's updateWall runs
WindowResizeRescaling(view) ==
  /\ view # viewport
  /\ viewport' = view
  /\ LET updated == updateWallRescaling(view, wall)
     IN /\ wall' = updated.wall
        /\ wallScale' = updated.scale
        /\ artworks' = updated.artworks
        /\ sidebar' = updated.sidebar
        /\ guides' = updated.guides
  /\ ui' = Report("updateWall", "none", {}, "none")
  /\ UNCHANGED << storeVars, wallBackgroundImage, artworkCounter,
                  artworkAspectRatios, pendingDecodes, selectedArtwork, modeVars,
                  collVars, fileVars, dragOffset, guidesEnabled, pendingReads,
                  unitsPanel >>

\* ------------------------------------------------- drag and handle resize
\* where the pointer is during a mousemove, relative to the wall's corner:
\* on the corner, inside the wall, and in the workspace padding beyond the
\* wall's far corner
Pointers ==
  { [x |-> 0, y |-> 0], [x |-> 240, y |-> 150], [x |-> 980, y |-> 510] }

\* the pointer on the wall's corner and beyond its far corner
FarPointers == { [x |-> 0, y |-> 0], [x |-> 980, y |-> 510] }

\* the position kept at or below room, with no lower bound
ClampBelow(v, room) == Min(v, room)

\* Math.max(0, Math.min(v, room)): the position kept within [0, room]
Clamp(v, room) == Max(0, ClampBelow(v, room))

\* the drag branch of mousemove on the selected element
Dragged(a, p, offset, w) ==
  [a EXCEPT !.left = Clamp(p.x - offset.x, w.displayWidth - a.width),
            !.top = Clamp(p.y - offset.y, w.displayHeight - a.height)]

\* newWidth / newHeight > aspectRatio as the division decides it: a zero
\* newHeight gives an infinity or NaN, a negative one turns the quotient
greaterThanRatio(newWidth, newHeight, a) ==
  IF newHeight > 0 THEN newWidth * a.height > newHeight * a.width
  ELSE IF newHeight < 0 THEN newWidth * a.height < newHeight * a.width
  ELSE newWidth > 0

\* the resize branch of mousemove on the selected element
Resized(a, p) ==
  LET newWidth == p.x - a.left
      newHeight == p.y - a.top
      fitted == IF greaterThanRatio(newWidth, newHeight, a)
                THEN [w |-> (newHeight * a.width) \div a.height, h |-> newHeight]
                ELSE [w |-> newWidth, h |-> (newWidth * a.height) \div a.width]
  IN [a EXCEPT !.width = Max(MinSizePx, fitted.w),
               !.height = Max(MinSizePx, fitted.h)]

\* mousemove on the document
MouseMove(p) ==
  /\ IF isPreviewMode
     THEN /\ isDragging' = FALSE
          /\ isResizing' = FALSE
          /\ ui' = Report("mousemove", "none", {}, "none")
          /\ UNCHANGED << artworks, guides >>
     ELSE /\ UNCHANGED << isDragging, isResizing >>
          /\ IF isDragging /\ selectedArtwork \in OnWall
             THEN /\ artworks' = [i \in 1..Len(artworks) |->
                                    IF artworks[i].id = selectedArtwork
                                    THEN Dragged(artworks[i], p, dragOffset, wall)
                                    ELSE artworks[i]]
                  /\ guides' = updateDistanceGuides(artworks', selectedArtwork,
                                                    guidesEnabled, wall, wallScale)
                  /\ ui' = Report("drag", "none", {}, "none")
             ELSE IF isResizing /\ selectedArtwork \in OnWall
             THEN /\ artworks' = [i \in 1..Len(artworks) |->
                                    IF artworks[i].id = selectedArtwork
                                    THEN Resized(artworks[i], p)
                                    ELSE artworks[i]]
                  /\ guides' = updateDistanceGuides(artworks', selectedArtwork,
                                                    guidesEnabled, wall, wallScale)
                  /\ ui' = Report("resize", "none", {}, "none")
             ELSE /\ ui' = Report("mousemove", "none", {}, "none")
                  /\ UNCHANGED << artworks, guides >>
  /\ UNCHANGED << storeVars, wallVars, artworkCounter, artworkAspectRatios,
                  pendingDecodes, selectedArtwork, isPreviewMode, dialogActive,
                  collVars, fileVars, sidebar, dragOffset, restVars >>

\* toggleDistanceGuides: the checkbox showDistanceGuides has changed
ToggleDistanceGuides ==
  /\ guidesEnabled' = ~guidesEnabled
  /\ guides' = IF guidesEnabled' /\ selectedArtwork # 0
               THEN updateDistanceGuides(artworks, selectedArtwork, guidesEnabled',
                                         wall, wallScale)
               ELSE {}
  /\ ui' = Report("toggleDistanceGuides", "none", {}, "none")
  /\ UNCHANGED << storeVars, wallVars, artVars, modeVars, collVars, fileVars,
                  sidebar, dragOffset, viewport, pendingReads, unitsPanel >>

\* pointer positions that put a dragged artwork beside, against, over and
\* below one that lies where it was dropped
GuidePointers ==
  { [x |-> 300, y |-> 45], [x |-> 155, y |-> 100], [x |-> 100, y |-> 100],
    [x |-> 0, y |-> 200] }

\* ------------------------------------------- framing and size controls
\* the frame and matte controls as the user may set them
FramingEdits ==
  [hasFrame : BOOLEAN, hasMatte : BOOLEAN, frameSize : {10}, matteSize : {20}]

\* the sizes typed into sidebarArtworkWidth and sidebarArtworkHeight
TypedArtworkSizes == {50, 80, 100}

\* a height typed for an artwork taller than the wall
TallSizes == {500}

\* the two inputs set to a 10 x 8 inch artwork
ExampleInputs == { << "width", 100 >>, << "height", 80 >> }

\* the element's total size with the matte and the frame on one side only
TotalSizeOneSide(base, hasMatte, mattePx, hasFrame, framePx) ==
  base + (IF hasMatte THEN mattePx ELSE 0) + (IF hasFrame THEN framePx ELSE 0)

\* totalWidth, totalHeight of updateSelectedArtwork
TotalSize(base, hasMatte, mattePx, hasFrame, framePx) ==
  base + (IF hasMatte THEN mattePx * 2 ELSE 0) + (IF hasFrame THEN framePx * 2 ELSE 0)

\* updateSelectedArtwork on the selected element, from the controls
updateSelectedArtwork(a, side, scale) ==
  LET artworkWidthPixels == tenthsToPixels(side.width, scale)
      artworkHeightPixels == tenthsToPixels(side.height, scale)
      frameSizePixels == tenthsToPixels(side.frameSize, scale)
      matteSizePixels == tenthsToPixels(side.matteSize, scale)
  IN IF side.hasFrame \/ side.hasMatte
     THEN [a EXCEPT
             !.directImg = "none",
             !.frameDisplay = "flex",
             !.matteDisplay = "flex",
             !.matteColor = IF side.hasMatte THEN side.matteColor ELSE "transparent",
             !.frameColor = IF side.hasFrame THEN side.frameColor ELSE "transparent",
             !.width = TotalSize(artworkWidthPixels, side.hasMatte, matteSizePixels,
                                 side.hasFrame, frameSizePixels),
             !.height = TotalSize(artworkHeightPixels, side.hasMatte, matteSizePixels,
                                  side.hasFrame, frameSizePixels),
             !.framePadding = IF side.hasFrame THEN frameSizePixels ELSE 0,
             !.mattePadding = IF side.hasMatte THEN matteSizePixels ELSE 0,
             !.imgW = artworkWidthPixels,
             !.imgH = artworkHeightPixels]
     ELSE [a EXCEPT
             !.frameDisplay = "none",
             !.matteDisplay = "none",
             !.directImg = "block",
             !.width = artworkWidthPixels,
             !.height = artworkHeightPixels]

\* the controls hold side; updateSelectedArtwork restyles the selected element
\* and recomputes the guides, or returns at once when nothing is selected
ApplyControls(side) ==
  /\ sidebar' = side
  /\ IF selectedArtwork \in OnWall
     THEN /\ artworks' = [i \in 1..Len(artworks) |->
                            IF artworks[i].id = selectedArtwork
                            THEN updateSelectedArtwork(artworks[i], side, wallScale)
                            ELSE artworks[i]]
          /\ guides' = updateDistanceGuides(artworks', selectedArtwork,
                                            guidesEnabled, wall, wallScale)
     ELSE UNCHANGED << artworks, guides >>

\* a change of a frame or matte control: updateSelectedArtwork; the panel of
\* the controls is shown by selectArtwork and hidden by deleteSelected
EditFraming(edit) ==
  /\ selectedArtwork # 0
  /\ ApplyControls([sidebar EXCEPT !.hasFrame = edit.hasFrame,
                                    !.hasMatte = edit.hasMatte,
                                    !.frameSize = edit.frameSize,
                                    !.matteSize = edit.matteSize])
  /\ ui' = Report("updateSelectedArtwork", "none", {}, "none")
  /\ UNCHANGED << storeVars, wallVars, artworkCounter, artworkAspectRatios,
                  pendingDecodes, selectedArtwork, modeVars, collVars, fileVars,
                  dragOffset, restVars >>

\* the width input after updateArtworkSize looked at the two inputs: with the
\* lock on and a stored ratio, a height more than 0.1 away from width / ratio
\* counts as typed and the width is rewritten from it
lockedWidth(side, ratios, id) ==
  IF /\ side.maintainRatio
     /\ id \in DOMAIN ratios
     /\ ratios[id] # 0
     /\ \/ side.height * ratios[id] - side.width > ratios[id]
        \/ side.width - side.height * ratios[id] > ratios[id]
  THEN side.height * ratios[id]
  ELSE side.width

\* the user types a width or a height: updateArtworkSize
TypeArtworkSize(field, tenths) ==
  /\ selectedArtwork # 0
  /\ LET typed == IF field = "width" THEN [sidebar EXCEPT !.width = tenths]
                  ELSE [sidebar EXCEPT !.height = tenths]
     IN ApplyControls([typed EXCEPT
                         !.width = lockedWidth(typed, artworkAspectRatios,
                                               selectedArtwork)])
  /\ ui' = ReportOn("updateArtworkSize", tenths, field, 0, "none", {}, "none")
  /\ UNCHANGED << storeVars, wallVars, artworkCounter, artworkAspectRatios,
                  pendingDecodes, selectedArtwork, modeVars, collVars, fileVars,
                  dragOffset, restVars >>

\* the user sets or clears sidebarMaintainRatio
SetMaintainRatio(checked) ==
  /\ selectedArtwork # 0
  /\ sidebar' = [sidebar EXCEPT !.maintainRatio = checked]
  /\ ui' = Report("maintainRatio", "none", {}, "none")
  /\ UNCHANGED << storeVars, wallVars, artVars, modeVars, collVars, fileVars,
                  guides, dragOffset, restVars >>

\* ------------------------------- wall.js with a units select (part_004)
\* lengths of that revision are counted in parts of an inch fine enough for
\* tenths of an inch, tenths of a centimetre and millimetres
InchParts == 1270

\* toInches of the text of a size input (tenths of the unit), in InchParts
toInches(tenths, units) ==
  CASE units = "inches" -> tenths * 127
    [] units = "cm" -> tenths * 50
    [] units = "mm" -> tenths * 5

\* inchesToCm(x).toFixed(1), inchesToMm(x).toFixed(0), x.toFixed(1): the text
\* written back into a size input, as tenths of the unit
fromInches(parts, units) ==
  CASE units = "inches" -> RoundDiv(parts, 127)
    [] units = "cm" -> RoundDiv(parts, 50)
    [] units = "mm" -> 10 * RoundDiv(parts, 50)

\* the sizes the user types into wallWidth and wallHeight
TypedSizes == { [width |-> 960, height |-> 480], [width |-> 800, height |-> 800] }

\* updateRefreshButtonState
updateRefreshButtonState(panel) ==
  [panel EXCEPT !.hasChanges = \/ panel.width # panel.lastAppliedWidth
                               \/ panel.height # panel.lastAppliedHeight
                               \/ panel.units # panel.lastAppliedUnits]

\* the scale updateWall of that revision computes from the inputs
UnitsScale(view, panel) ==
  Min(((view.width - WorkspacePadding) * ScaleUnit * InchParts)
         \div toInches(panel.width, panel.units),
      ((view.height - WindowPadding) * ScaleUnit * InchParts)
         \div toInches(panel.height, panel.units))

\* the user types a size; onWallDimensionChange
TypeWallSize(size) ==
  /\ unitsPanel' = updateRefreshButtonState(
                      [unitsPanel EXCEPT !.width = size.width, !.height = size.height])
  /\ ui' = Report("typeWallSize", "none", {}, "none")
  /\ UNCHANGED << storeVars, wallVars, artVars, modeVars, collVars, fileVars,
                  panelVars, viewport, guidesEnabled, pendingReads >>

\* cycleWallUnits: advance the select, then updateWallUnits converts the two
\* inputs through inches and records currentUnits
CycleWallUnits ==
  /\ LET newUnits == CASE unitsPanel.units = "inches" -> "cm"
                        [] unitsPanel.units = "cm" -> "mm"
                        [] OTHER -> "inches"
         widthInches == toInches(unitsPanel.width, unitsPanel.currentUnits)
         heightInches == toInches(unitsPanel.height, unitsPanel.currentUnits)
         converted == IF unitsPanel.currentUnits # newUnits
                      THEN [unitsPanel EXCEPT !.units = newUnits,
                                              !.width = fromInches(widthInches, newUnits),
                                              !.height = fromInches(heightInches, newUnits),
                                              !.currentUnits = newUnits]
                      ELSE [unitsPanel EXCEPT !.units = newUnits]
     IN unitsPanel' = updateRefreshButtonState(converted)
  /\ ui' = Report("cycleWallUnits", "none", {}, "none")
  /\ UNCHANGED << storeVars, wallVars, artVars, modeVars, collVars, fileVars,
                  panelVars, viewport, guidesEnabled, pendingReads >>

\* updateWall of that revision: scale from the inputs and their unit, restyle
\* the wall, remember what was applied
ApplyWallUnits ==
  /\ LET scale == UnitsScale(viewport, unitsPanel)
     IN /\ wallScale' = scale
        /\ wall' = [wall EXCEPT
                      !.displayWidth = (toInches(unitsPanel.width, unitsPanel.units) * scale)
                                         \div (InchParts * ScaleUnit),
                      !.displayHeight = (toInches(unitsPanel.height, unitsPanel.units) * scale)
                                          \div (InchParts * ScaleUnit),
                      !.backgroundColor = wall.color,
                      !.backgroundImage = wallBackgroundImage]
  /\ unitsPanel' = updateRefreshButtonState(
                      [unitsPanel EXCEPT !.lastAppliedWidth = unitsPanel.width,
                                         !.lastAppliedHeight = unitsPanel.height,
                                         !.lastAppliedUnits = unitsPanel.units])
  /\ ui' = Report("applyWall", "none", {}, "none")
  /\ UNCHANGED << storeVars, wallBackgroundImage, artVars, modeVars, collVars,
                  fileVars, panelVars, viewport, guidesEnabled, pendingReads >>

\* ---------------------------------------------------------- specification
Answers == {"yes", "no"}

\* the artworks and the selection: every handler that creates, removes,
\* marks or unmarks an artwork
Next ==
  \/ \E i \in 1..MaxLayouts : LoadLayout(i)
  \/ \E answer \in Answers : ClearWall(answer)
  \/ \E src \in Srcs : AddToWall(src)
  \/ \E d \in pendingDecodes : DecodeComplete(d)
  \/ \E k \in 1..Len(collectionItems), p \in DropPoints :
       DropFromCollection(collectionItems[k], p)
  \/ \E id \in OnWall, onHandle \in BOOLEAN, grab \in CornerGrab :
       MouseDown(id, onHandle, grab)
  \/ MouseUp
  \/ ClickOutside
  \/ DeleteSelected
  \/ ToggleRoomView

Spec == Init /\ [][Next]_vars

\* loading and discarding: layouts, the wall and the artworks on it
NextLoad ==
  \/ \E i \in 1..MaxLayouts : LoadLayout(i)
  \/ \E i \in 1..MaxLayouts, answer \in Answers, ok \in BOOLEAN :
       DeleteLayout(i, answer, ok)
  \/ \E answer \in Answers : ClearWall(answer)
  \/ \E src \in Srcs : AddToWall(src)
  \/ \E k \in 1..Len(collectionItems), p \in DropPoints :
       DropFromCollection(collectionItems[k], p)
  \/ \E k \in 1..Len(collectionItems), ok \in BOOLEAN :
       DeleteFromCollection(collectionItems[k].id, ok)
  \/ \E p \in WallPresets : EditWall(p)
  \/ \E img \in WallImages \cup {Null} : SetWallImage(img)

SpecLoad == Init /\ [][NextLoad]_vars

\* the saved-layouts collection: save, delete and import on a working session
NextStore ==
  \/ \E t \in Timestamps, ok \in BOOLEAN : SaveLayout(t, ok)
  \/ \E i \in 1..MaxLayouts, answer \in Answers, ok \in BOOLEAN :
       DeleteLayout(i, answer, ok)
  \/ \E file \in ImportFiles, answer \in Answers, ok \in BOOLEAN :
       ImportLayouts(file, answer, ok)
  \/ \E src \in Srcs : AddToWall(src)
  \/ \E k \in 1..Len(collectionItems), p \in DropPoints :
       DropFromCollection(collectionItems[k], p)

SpecStore == Init /\ [][NextStore]_vars

\* The three writers of the stored collection against a session whose wall
\* carries a background image; the import picker offers one well-formed file.
QuotaFiles == {JSONstringify(<< SampleB >>)}

NextQuota ==
  \/ \E t \in Timestamps, ok \in BOOLEAN : SaveLayout(t, ok)
  \/ \E i \in 1..MaxLayouts, answer \in Answers, ok \in BOOLEAN :
       DeleteLayout(i, answer, ok)
  \/ \E file \in QuotaFiles, answer \in Answers, ok \in BOOLEAN :
       ImportLayouts(file, answer, ok)
  \/ \E src \in Srcs : AddToWall(src)
  \/ \E k \in 1..Len(collectionItems), p \in DropPoints :
       DropFromCollection(collectionItems[k], p)
  \/ \E img \in WallImages : SetWallImage(img)

SpecQuota == Init /\ [][NextQuota]_vars

\* every handler that puts an artwork on the wall or takes one off
NextIds ==
  \/ \E files \in Uploads : HandleImageUpload(files)
  \/ \E r \in pendingReads : FileRead(r)
  \/ \E src \in Srcs : AddToWall(src)
  \/ \E k \in 1..Len(collectionItems), p \in DropPoints :
       DropFromCollection(collectionItems[k], p)
  \/ \E i \in 1..MaxLayouts : LoadLayout(i)
  \/ \E answer \in Answers : ClearWall(answer)
  \/ DeleteSelected

SpecIds == Init /\ [][NextIds]_vars

\* the rescaling revision of wall.js with artworks on the wall
NextRescale ==
  \/ \E src \in Srcs : AddToWall(src)
  \/ \E k \in 1..Len(collectionItems), p \in DropPoints :
       DropFromCollection(collectionItems[k], p)
  \/ \E p \in RescalePresets : EditWallRescaling(p)
  \/ \E view \in Viewports : WindowResizeRescaling(view)

SpecRescale == Init /\ [][NextRescale]_vars

\* dragging with the pointer, artworks taller than the wall included
NextDrag ==
  \/ \E k \in 1..Len(collectionItems), p \in DropPoints :
       DropFromCollection(collectionItems[k], p)
  \/ \E d \in pendingDecodes : DecodeComplete(d)
  \/ \E id \in OnWall, grab \in GrabPoints : MouseDown(id, FALSE, grab)
  \/ \E p \in FarPointers : MouseMove(p)
  \/ MouseUp
  \/ \E tenths \in TallSizes : TypeArtworkSize("height", tenths)

SpecDrag == Init /\ [][NextDrag]_vars

\* the distance guides while artworks are dropped, decoded and dragged
NextGuides ==
  \/ \E k \in 1..Len(collectionItems), p \in DropPoints :
       DropFromCollection(collectionItems[k], p)
  \/ \E d \in pendingDecodes : DecodeComplete(d)
  \/ \E id \in OnWall : MouseDown(id, FALSE, [x |-> 0, y |-> 0])
  \/ \E p \in GuidePointers : MouseMove(p)
  \/ MouseUp
  \/ ToggleDistanceGuides

SpecGuides == Init /\ [][NextGuides]_vars

\* the distance guides while the geometry changes without the pointer: decode
\* completions, a resized window, a deleted artwork
NextStale ==
  \/ \E k \in 1..Len(collectionItems), p \in DropPoints :
       DropFromCollection(collectionItems[k], p)
  \/ \E d \in pendingDecodes : DecodeComplete(d)
  \/ ToggleDistanceGuides
  \/ DeleteSelected
  \/ \E view \in Viewports : WindowResize(view)

SpecStale == Init /\ [][NextStale]_vars

\* edits of a dropped artwork before and after its decode completes
NextInterleave ==
  \/ \E k \in 1..Len(collectionItems), p \in DropPoints :
       DropFromCollection(collectionItems[k], p)
  \/ \E d \in pendingDecodes : DecodeComplete(d)
  \/ \E id \in OnWall : MouseDown(id, FALSE, [x |-> 0, y |-> 0])
  \/ \E p \in FarPointers : MouseMove(p)
  \/ \E edit \in FramingEdits : EditFraming(edit)

SpecInterleave == Init /\ [][NextInterleave]_vars

\* the frame checked alone, then the matte checked alone
SavedEdits == { edit \in FramingEdits : edit.hasFrame # edit.hasMatte }

\* saving the wall and loading a layout right after the save
NextSaveLoad ==
  \/ \E k \in 1..Len(collectionItems), p \in DropPoints :
       DropFromCollection(collectionItems[k], p)
  \/ \E d \in pendingDecodes : DecodeComplete(d)
  \/ \E edit \in SavedEdits : EditFraming(edit)
  \/ \E t \in Timestamps : SaveLayout(t, TRUE)
  \/ \E i \in 1..MaxLayouts : ui.op = "saveLayout" /\ LoadLayout(i)

SpecSaveLoad == Init /\ [][NextSaveLoad]_vars

\* the element of the file at totalIndex of the upload grid once its
\* FileReader and its image have loaded
Uploaded(id, src, totalIndex, scale, w) ==
  LET row == totalIndex \div UploadCols
      col == totalIndex % UploadCols
      xInches == UploadStartInches + col * (UploadWidthInches + UploadGapInches)
      yInches == UploadStartInches + row * (UploadWidthInches + UploadGapInches)
  IN Decoded(NewArtwork(id, src, unitsToPixels(xInches, scale),
                        unitsToPixels(yInches, scale),
                        unitsToPixels(UploadWidthInches, scale),
                        unitsToPixels(UploadWidthInches, scale)),
             [id |-> id, src |-> src, from |-> "upload", x |-> 0, y |-> 0,
              heightPx |-> 0], scale, w)

\* one upload of three files
GridFiles == << "imgA", "imgB", "imgA" >>

\* the wall once the three files of one upload have been read and decoded
InitGrid ==
  /\ viewport = [width |-> WorkspaceWidth, height |-> InnerHeight]
  /\ guidesEnabled = FALSE
  /\ guides = {}
  /\ sidebar = DefaultSidebar
  /\ dragOffset = [x |-> 0, y |-> 0]
  /\ pendingReads = {}
  /\ unitsPanel = DefaultUnitsPanel
  /\ localStorage \in InitStores
  /\ savedLayouts = loadSavedLayouts(localStorage).layouts
  /\ listed = loadSavedLayouts(localStorage).listed
  /\ wall = updateWall(DefaultWall, Null).wall
  /\ wallScale = updateWall(DefaultWall, Null).scale
  /\ wallBackgroundImage = Null
  /\ artworks = [i \in 1..Len(GridFiles) |->
                   Uploaded(i, GridFiles[i], i - 1, wallScale, wall)]
  /\ artworkCounter = Len(GridFiles)
  /\ artworkAspectRatios =
       [id \in 1..MaxCounter |->
          IF id <= Len(GridFiles) THEN NaturalRatio(GridFiles[id]) ELSE 0]
  /\ pendingDecodes = {}
  /\ selectedArtwork = 0
  /\ isPreviewMode = FALSE
  /\ isDragging = FALSE
  /\ isResizing = FALSE
  /\ dialogActive = FALSE
  /\ collectionItems = InitCollection
  /\ collectionCounter = 1
  /\ collectionStore = [items |-> InitCollection, counter |-> 1]
  /\ exportFile = NoFile
  /\ exportedFrom = <<>>
  /\ ui = Report("decode", "none", {}, "none")

\* where the pointer moves an artwork of the grid
GridPointers ==
  { [x |-> 0, y |-> 0], [x |-> 150, y |-> 20], [x |-> 150, y |-> 120],
    [x |-> 400, y |-> 40] }

\* dragging the artworks of a filled grid with the guides on or off
NextNeighbors ==
  \/ \E id \in OnWall : MouseDown(id, FALSE, [x |-> 0, y |-> 0])
  \/ \E p \in GridPointers : MouseMove(p)
  \/ MouseUp
  \/ ToggleDistanceGuides

SpecNeighbors == InitGrid /\ [][NextNeighbors]_vars

\* parseFloat of an empty or unparsable input, and every number computed
\* from it; no length, size or scale of the model is negative
NaN == -1

\* the wall inputs a user can leave empty
WallFields == {"width", "height"}

\* updateWall with one of the two size inputs empty: the quotient of that
\* dimension is NaN, Math.min of it is NaN, and 'NaNpx' is no CSS length,
\* so the two style assignments of the size are dropped
EditWallBlank(field, color) ==
  /\ wall' = [wall EXCEPT
                !.widthInches = IF field = "width" THEN NaN ELSE @,
                !.heightInches = IF field = "height" THEN NaN ELSE @,
                !.color = color,
                !.backgroundColor = color]
  /\ wallScale' = NaN
  /\ ui' = Report("editWallBlank", "none", {}, "none")
  /\ UNCHANGED << storeVars, wallBackgroundImage, artVars, modeVars, collVars,
                  fileVars, panelVars, restVars >>

\* updateSelectedArtwork with the frame size input empty: with the frame
\* checked the total size and the frame padding are NaN lengths, which the
\* element's style drops, while every other assignment takes effect
updateSelectedArtworkBlank(a, side, scale) ==
  LET styled == updateSelectedArtwork(a, [side EXCEPT !.frameSize = 0], scale)
  IN IF side.hasFrame
     THEN [styled EXCEPT !.width = a.width, !.height = a.height,
                         !.framePadding = a.framePadding]
     ELSE styled

\* the frame and matte controls edited while the frame size input is empty
EditFramingBlank(edit) ==
  /\ selectedArtwork \in OnWall
  /\ LET side == [sidebar EXCEPT !.hasFrame = edit.hasFrame,
                                 !.hasMatte = edit.hasMatte,
                                 !.frameSize = NaN,
                                 !.matteSize = edit.matteSize]
     IN /\ sidebar' = side
        /\ artworks' = [i \in 1..Len(artworks) |->
                          IF artworks[i].id = selectedArtwork
                          THEN updateSelectedArtworkBlank(artworks[i], side, wallScale)
                          ELSE artworks[i]]
        /\ guides' = updateDistanceGuides(artworks', selectedArtwork,
                                          guidesEnabled, wall, wallScale)
  /\ ui' = Report("updateSelectedArtworkBlank", "none", {}, "none")
  /\ UNCHANGED << storeVars, wallVars, artworkCounter, artworkAspectRatios,
                  pendingDecodes, selectedArtwork, modeVars, collVars, fileVars,
                  dragOffset, restVars >>

\* inputs left empty; artworks are created and framed while the scale is a
\* number
NextBlank ==
  \/ \E p \in WallPresets : EditWall(p)
  \/ \E field \in WallFields, p \in WallPresets : EditWallBlank(field, p.color)
  \/ \E k \in 1..Len(collectionItems), p \in DropPoints :
       wallScale # NaN /\ DropFromCollection(collectionItems[k], p)
  \/ \E edit \in SavedEdits : wallScale # NaN /\ EditFraming(edit)
  \/ \E edit \in SavedEdits : wallScale # NaN /\ EditFramingBlank(edit)

SpecBlank == Init /\ [][NextBlank]_vars

\* uploads of two files and of one file
UploadBatches == Uploads \cup { << "imgB" >> }

\* uploads, their file reads, and deletions of uploaded artworks
NextUpload ==
  \/ \E files \in UploadBatches : HandleImageUpload(files)
  \/ \E r \in pendingReads : FileRead(r)
  \/ \E id \in OnWall : MouseDown(id, FALSE, [x |-> 0, y |-> 0])
  \/ DeleteSelected

SpecUpload == Init /\ [][NextUpload]_vars

\* the frame ticked with one of two frame widths (tenths of an inch)
WidthEdits ==
  [hasFrame : {TRUE}, hasMatte : {FALSE}, frameSize : {10, 20}, matteSize : {20}]

\* framing artworks with different frame widths, selecting them again, and
\* saving and loading the wall
NextReapply ==
  \/ \E k \in 1..Len(collectionItems), p \in DropPoints :
       DropFromCollection(collectionItems[k], p)
  \/ \E id \in OnWall : MouseDown(id, FALSE, [x |-> 0, y |-> 0])
  \/ \E edit \in WidthEdits : EditFraming(edit)
  \/ \E t \in Timestamps : SaveLayout(t, TRUE)
  \/ \E i \in 1..MaxLayouts : ui.op = "saveLayout" /\ LoadLayout(i)

SpecReapply == Init /\ [][NextReapply]_vars

\* resizing with the corner handle
NextResize ==
  \/ \E k \in 1..Len(collectionItems), p \in DropPoints :
       DropFromCollection(collectionItems[k], p)
  \/ \E d \in pendingDecodes : DecodeComplete(d)
  \/ \E id \in OnWall : MouseDown(id, TRUE, [x |-> 0, y |-> 0])
  \/ \E p \in Pointers : MouseMove(p)
  \/ MouseUp

SpecResize == Init /\ [][NextResize]_vars

\* framing and sizing of the selected artwork from the sidebar
NextFrame ==
  \/ \E k \in 1..Len(collectionItems), p \in DropPoints :
       DropFromCollection(collectionItems[k], p)
  \/ \E edit \in FramingEdits : EditFraming(edit)
  \/ \E input \in ExampleInputs : TypeArtworkSize(input[1], input[2])

SpecFrame == Init /\ [][NextFrame]_vars

\* sizing of a decoded artwork with and without the aspect-ratio lock
NextSize ==
  \/ \E k \in 1..Len(collectionItems), p \in DropPoints :
       DropFromCollection(collectionItems[k], p)
  \/ \E d \in pendingDecodes : DecodeComplete(d)
  \/ \E field \in {"width", "height"}, tenths \in TypedArtworkSizes :
       TypeArtworkSize(field, tenths)
  \/ \E checked \in BOOLEAN : SetMaintainRatio(checked)

SpecSize == Init /\ [][NextSize]_vars

\* the wall of the revision with a units select, with artworks on it
NextUnits ==
  \/ \E size \in TypedSizes : TypeWallSize(size)
  \/ CycleWallUnits
  \/ ApplyWallUnits
  \/ \E src \in Srcs : AddToWall(src)
  \/ \E k \in 1..Len(collectionItems), p \in DropPoints :
       DropFromCollection(collectionItems[k], p)

SpecUnits == Init /\ [][NextUnits]_vars

\* export of the collection and import of the exported document
NextRoundTrip ==
  \/ \E t \in Timestamps, ok \in BOOLEAN : SaveLayout(t, ok)
  \/ \E i \in 1..MaxLayouts, answer \in Answers, ok \in BOOLEAN :
       DeleteLayout(i, answer, ok)
  \/ ExportLayouts
  \/ \E answer \in Answers, ok \in BOOLEAN : ImportLayouts(exportFile, answer, ok)
  \/ \E src \in Srcs : AddToWall(src)

SpecRoundTrip == Init /\ [][NextRoundTrip]_vars

\* ================================================================ claims
\* the durable blob as loadSavedLayouts would decode it
DecodedBlob == loadSavedLayouts(localStorage).layouts

CollectionOps == {"saveLayout", "deleteLayout", "importLayouts"}
NonArrayDocs == {"object", "number", "string", "null"}

\* C1: whenever importLayouts shows the import error, savedLayouts and the
\* durable blob are what they were before the import (invalid JSON, JSON
\* that is not an array, arrays whose elements are not layout records).
C1_ImportErrorLeavesCollection ==
  [][(ui'.op = "importLayouts" /\ "importError" \in ui'.alerts)
       => (savedLayouts' = savedLayouts /\ localStorage' = localStorage)]_vars

\* C2: a file whose top-level JSON value is not an array pushes nothing,
\* asks no confirmation and shows the import error.
C2_NonArrayRejected ==
  [][(ui'.op = "importLayouts" /\ ui'.file.doc \in NonArrayDocs)
       => /\ savedLayouts' = savedLayouts
          /\ localStorage' = localStorage
          /\ ui'.confirm = "none"
          /\ "importError" \in ui'.alerts]_vars

C2_Witness ==
  /\ ui.op = "importLayouts"
  /\ ui.file.doc = "object"
  /\ "importError" \in ui.alerts
  /\ Len(savedLayouts) >= 1

\* C3: a confirmed import of an array L makes savedLayouts the previous
\* sequence followed by the elements of L in order; a declined import
\* changes neither savedLayouts nor the blob.
C3_ConfirmedImportAppends ==
  [][(ui'.op = "importLayouts" /\ ui'.file.doc = "array")
       => /\ ui'.confirm = "yes" =>
               savedLayouts' = savedLayouts \o JSONparse(ui'.file).items
          /\ ui'.confirm = "no" =>
               (savedLayouts' = savedLayouts /\ localStorage' = localStorage)]_vars

\* C4: importing (confirmed) the document produced by exportLayouts into an
\* empty collection yields the exported sequence of layouts.
C4_ExportImportRoundTrip ==
  [][(/\ ui'.op = "importLayouts"
      /\ ui'.confirm = "yes"
      /\ exportFile # NoFile
      /\ ui'.file = exportFile
      /\ savedLayouts = <<>>)
       => savedLayouts' = exportedFrom]_vars

\* C5: when the storage write of saveLayout, deleteLayout or importLayouts
\* fails, the user is told and the wall, wallScale, the background image,
\* the artworks and the selection are as before the handler.
C5_FailedWriteKeepsSession ==
  [][(ui'.op \in CollectionOps /\ ui'.write = "failed")
       => ("saveFailed" \in ui'.alerts /\ Session' = Session)]_vars

C5_Witness ==
  /\ ui.op = "importLayouts"
  /\ ui.write = "failed"
  /\ Len(artworks) = 2
  /\ selectedArtwork # 0
  /\ wallBackgroundImage # Null

\* C6: after saveLayout, deleteLayout or a confirmed importLayouts, the
\* durable blob decodes to exactly the in-memory savedLayouts, whether or
\* not the write succeeded.
C6_BlobAgreesWithMemory ==
  (\/ ui.op \in {"saveLayout", "deleteLayout"} /\ ui.write # "none"
   \/ ui.op = "importLayouts" /\ ui.confirm = "yes")
    => DecodedBlob = savedLayouts

\* C7: saveLayout appends one layout named "Gallery n+1" (n the number of
\* layouts before the call), leaves the earlier layouts at their indices,
\* and the new layout lists one entry per artwork on the wall in wall order.
C7_SaveAppendsOne ==
  [][ui'.op = "saveLayout"
       => LET n == Len(savedLayouts)
              new == savedLayouts'[n + 1]
          IN /\ Len(savedLayouts') = n + 1
             /\ \A i \in 1..n : savedLayouts'[i] = savedLayouts[i]
             /\ new.name = n + 1
             /\ Len(new.artworks) = Len(artworks)
             /\ \A i \in 1..Len(artworks) :
                  /\ new.artworks[i].src = artworks[i].src
                  /\ new.artworks[i].left = artworks[i].left
                  /\ new.artworks[i].top = artworks[i].top
                  /\ new.artworks[i].width = artworks[i].width
                  /\ new.artworks[i].height = artworks[i].height]_vars

C7_Witness ==
  /\ ui.op = "saveLayout"
  /\ Len(savedLayouts) = 2
  /\ Len(artworks) = 2
  /\ artworks[1].src # artworks[2].src
  /\ Len(savedLayouts[2].artworks) = 2
  /\ savedLayouts[2].name = 2

\* the entry a saved layout holds for an artwork element of the wall
ShowsEntry(a, d) ==
  /\ a.src = d.src
  /\ a.left = d.left /\ a.top = d.top
  /\ a.width = d.width /\ a.height = d.height
  /\ (a.frameDisplay # "none") = d.hasFrame
  /\ (a.matteDisplay # "none") = d.hasMatte

\* C8: after loadLayout(i) the wall holds exactly the artworks of layout i
\* in saved order and none of the earlier ones, nothing is selected, the
\* wall's width, height, colour and background image are those of layout i,
\* and the saved-layouts collection is unchanged.
C8_LoadReplacesWholesale ==
  [][ui'.op = "loadLayout"
       => LET layout == savedLayouts[ui'.index]
              ws == layout.wallSettings
          IN /\ Len(artworks') = Len(layout.artworks)
             /\ \A k \in 1..Len(layout.artworks) :
                  ShowsEntry(artworks'[k], layout.artworks[k])
             /\ OnWall' \cap OnWall = {}
             /\ selectedArtwork' = 0
             /\ \A k \in 1..Len(artworks') : ~artworks'[k].selected
             /\ wall'.widthInches = ws.width
             /\ wall'.heightInches = ws.height
             /\ wall'.color = ws.color
             /\ wall'.backgroundColor = ws.color
             /\ wallBackgroundImage' = ws.backgroundImage
             /\ wall'.backgroundImage = ws.backgroundImage
             /\ savedLayouts' = savedLayouts
             /\ localStorage' = localStorage]_vars

C8_Witness ==
  /\ ui.op = "loadLayout"
  /\ ui.index = 2
  /\ ui.had >= 1
  /\ Len(artworks) = 2
  /\ artworks[1].matteDisplay = "flex"
  /\ artworks[2].frameDisplay = "flex"

\* what the discarding handlers may not touch without a confirmation
Guarded == << savedLayouts, localStorage, artworks, selectedArtwork >>

\* C9 as stated: deleteLayout, clearWall and loadLayout change the saved
\* layouts, the blob, the artworks or the selection only after the user has
\* confirmed.
C9_DiscardOnlyAfterConfirm ==
  [][(ui'.op \in {"deleteLayout", "clearWall", "loadLayout"} /\ ui'.confirm # "yes")
       => Guarded' = Guarded]_vars

\* C9 amended: deleteLayout and clearWall change the saved layouts, the
\* blob, the artworks or the selection only after the user has confirmed;
\* loadLayout replaces the artworks without asking, and deleteFromCollection
\* removes the item without asking.
C9_DeleteAndClearGated ==
  [][/\ (ui'.op \in {"deleteLayout", "clearWall"} /\ ui'.confirm # "yes")
          => Guarded' = Guarded
     /\ ui'.op = "loadLayout"
          => (ui'.confirm = "none" /\ OnWall' \cap OnWall = {})
     /\ ui'.op = "deleteFromCollection"
          => (ui'.confirm = "none" /\ Len(collectionItems') = Len(collectionItems) - 1)]_vars

C9_Witness ==
  /\ ui.op = "clearWall"
  /\ ui.confirm = "no"
  /\ Len(artworks) = 2
  /\ selectedArtwork # 0
  /\ Len(savedLayouts) >= 1

Marked == { i \in 1..Len(artworks) : artworks[i].selected }

\* C10: at most one artwork carries the 'selected' mark in every reachable
\* state, and a handler that selects an artwork leaves the mark on that
\* artwork only and makes it selectedArtwork.
C10_AtMostOneSelected ==
  /\ [](Cardinality(Marked) <= 1)
  /\ [][(ui'.op = "drop" \/ (ui'.op = "mousedown" /\ ~isPreviewMode))
          => /\ selectedArtwork' \in OnWall'
             /\ \A i \in 1..Len(artworks') :
                  artworks'[i].selected <=> (artworks'[i].id = selectedArtwork')]_vars

C10_Witness ==
  /\ ui.op = "mousedown"
  /\ Len(artworks) = 2
  /\ selectedArtwork = artworks[1].id
  /\ artworks[1].selected
  /\ artworks[2].src = "imgA"
  /\ artworks[2].frameDisplay = "none"

\* C11: no two artworks on the wall share an id; every id on the wall was
\* handed out by artworkCounter, which only increases; an artwork entering
\* the wall gets an id never assigned before; an artwork that stays on the
\* wall keeps its id.
C11_IdsUniqueAndStable ==
  /\ [](/\ \A i, j \in 1..Len(artworks) : i # j => artworks[i].id # artworks[j].id
        /\ OnWall \subseteq 1..artworkCounter)
  /\ [][/\ artworkCounter' >= artworkCounter
         /\ (OnWall' \ OnWall) \subseteq (artworkCounter + 1)..artworkCounter'
         /\ \A id \in OnWall \cap OnWall' :
              Element(artworks', id).src = Element(artworks, id).src]_vars

C11_Witness ==
  /\ ui.op = "loadLayout"
  /\ artworkCounter = MaxCounter
  /\ Len(artworks) = 2
  /\ 1 \notin OnWall

\* the physical length px / scale is the same as px2 / scale2, to the pixel
SamePhysical(px, scale, px2, scale2) ==
  /\ px2 * scale - px * scale2 < scale
  /\ px * scale2 - px2 * scale < scale

\* C12: an updateWall that changes wallScale leaves the physical width,
\* height, left, top and frame and matte padding of every artwork on the
\* wall as they were, whatever the old scale, one pixel per inch included.
C12_RescaleKeepsPhysicalSize ==
  [][(ui'.op = "updateWall" /\ wallScale' # wallScale)
       => /\ Len(artworks') = Len(artworks)
          /\ \A i \in 1..Len(artworks) :
               /\ SamePhysical(artworks[i].width, wallScale, artworks'[i].width, wallScale')
               /\ SamePhysical(artworks[i].height, wallScale, artworks'[i].height, wallScale')
               /\ SamePhysical(artworks[i].left, wallScale, artworks'[i].left, wallScale')
               /\ SamePhysical(artworks[i].top, wallScale, artworks'[i].top, wallScale')
               /\ SamePhysical(artworks[i].framePadding, wallScale,
                               artworks'[i].framePadding, wallScale')
               /\ SamePhysical(artworks[i].mattePadding, wallScale,
                               artworks'[i].mattePadding, wallScale')]_vars

\* the wall size the inputs stand for, in InchParts
CanonicalWall ==
  << toInches(unitsPanel.width, unitsPanel.currentUnits),
     toInches(unitsPanel.height, unitsPanel.currentUnits) >>

\* C13: a change of the wall's display unit leaves the wall's size in inches
\* as it was, so that updateWall in the same viewport would compute the same
\* wallScale after it as before it, and it changes neither wallScale nor
\* any artwork.
C13_UnitChangeIsPresentationOnly ==
  [][ui'.op = "cycleWallUnits"
       => /\ CanonicalWall' = CanonicalWall
          /\ UnitsScale(viewport, unitsPanel') = UnitsScale(viewport, unitsPanel)
          /\ wallScale' = wallScale
          /\ artworks' = artworks]_vars

\* the frame and matte widths the controls add on each side, in tenths
Surround(side) ==
  (IF side.hasMatte THEN side.matteSize ELSE 0)
    + (IF side.hasFrame THEN side.frameSize ELSE 0)

\* the controls of a 10 x 8 inch artwork with a 2 inch matte and a 1 inch
\* frame at 10 pixels per inch
ExampleControls ==
  /\ wallScale = 10 * ScaleUnit
  /\ sidebar.hasFrame /\ sidebar.hasMatte
  /\ sidebar.width = 100 /\ sidebar.height = 80
  /\ sidebar.matteSize = 20 /\ sidebar.frameSize = 10

\* the total size is (logical size + 2 * matte + 2 * frame) * wallScale
TotalFollowsControls ==
  (ui'.op \in {"updateSelectedArtwork", "updateArtworkSize"}
     /\ selectedArtwork \in OnWall)
    => LET a == Element(artworks', selectedArtwork)
       IN /\ a.width * 10 * ScaleUnit
               = (sidebar'.width + 2 * Surround(sidebar')) * wallScale
          /\ a.height * 10 * ScaleUnit
               = (sidebar'.height + 2 * Surround(sidebar')) * wallScale

\* C14 as stated: after updateSelectedArtwork the selected artwork's total
\* pixel width and height are (logical size + 2 * matte width if the matte
\* is on + 2 * frame width if the frame is on) * wallScale, and the 10 x 8
\* inch artwork with a 2 inch matte and a 1 inch frame at scale 10 comes
\* out as 130 x 110 pixels.
C14_TotalSizeWithExample ==
  [][/\ TotalFollowsControls
     /\ (ui'.op = "updateSelectedArtwork" /\ selectedArtwork \in OnWall
           /\ ExampleControls')
         => /\ Element(artworks', selectedArtwork).width = 130
            /\ Element(artworks', selectedArtwork).height = 110]_vars

\* C14 amended: the same rule for the four combinations of the frame and
\* matte flags; the 10 x 8 inch artwork with a 2 inch matte and a 1 inch
\* frame at scale 10 comes out as 160 x 140 pixels.
C14_TotalSizeFromControls ==
  [][/\ TotalFollowsControls
     /\ (ui'.op = "updateSelectedArtwork" /\ selectedArtwork \in OnWall
           /\ ExampleControls')
         => /\ Element(artworks', selectedArtwork).width = 160
            /\ Element(artworks', selectedArtwork).height = 140]_vars

\* the example artwork framed and matted
C14_Witness ==
  /\ ui.op = "updateSelectedArtwork"
  /\ selectedArtwork \in OnWall
  /\ ExampleControls
  /\ Element(artworks, selectedArtwork).width = 160
  /\ Element(artworks, selectedArtwork).height = 140

\* the element's box lies inside the wall
InsideWall(a, w) ==
  /\ 0 <= a.left /\ a.left + a.width <= w.displayWidth
  /\ 0 <= a.top /\ a.top + a.height <= w.displayHeight

\* C15 as stated: after every drag step the selected artwork's total
\* bounding box lies inside the wall, for every artwork size and pointer
\* position.
C15_DragStaysInsideWall ==
  [][ui'.op = "drag" => InsideWall(Element(artworks', selectedArtwork), wall)]_vars

\* C15 amended: after every drag step left and top are at least 0, and an
\* artwork no larger than the wall lies inside it; on an axis where it is
\* larger than the wall it sits at 0.
C15_DragClamped ==
  [][ui'.op = "drag"
       => LET a == Element(artworks', selectedArtwork)
          IN /\ 0 <= a.left /\ 0 <= a.top
             /\ a.width <= wall.displayWidth
                  => a.left + a.width <= wall.displayWidth
             /\ a.height <= wall.displayHeight
                  => a.top + a.height <= wall.displayHeight
             /\ a.width > wall.displayWidth => a.left = 0
             /\ a.height > wall.displayHeight => a.top = 0]_vars

\* a drag that the clamp stopped at the wall's right and bottom edges
C15_Witness ==
  /\ ui.op = "drag"
  /\ LET a == Element(artworks, selectedArtwork)
     IN /\ a.left > 0 /\ a.top > 0
        /\ a.left + a.width = wall.displayWidth
        /\ a.top + a.height = wall.displayHeight

\* C16: a resize through the corner handle keeps the artwork's width/height
\* ratio, to the pixel, for every pointer position, the 50 pixel floor
\* included.
C16_ResizeKeepsAspectRatio ==
  [][ui'.op = "resize"
       => LET old == Element(artworks, selectedArtwork)
              new == Element(artworks', selectedArtwork)
          IN /\ new.width * old.height - new.height * old.width < old.width + old.height
             /\ new.height * old.width - new.width * old.height < old.width + old.height]_vars

\* C17: with the aspect-ratio lock on and a stored ratio r for the selected
\* artwork, setting the width to w through updateArtworkSize yields the
\* logical size (w, w / r), in the controls and on the wall; a second
\* application is one more such step and yields the same.
C17_LockedWidthSetsHeight ==
  [][(/\ ui'.op = "updateArtworkSize"
      /\ ui'.file = "width"
      /\ sidebar.maintainRatio
      /\ selectedArtwork \in OnWall
      /\ artworkAspectRatios[selectedArtwork] # 0)
       => LET r == artworkAspectRatios[selectedArtwork]
              a == Element(artworks', selectedArtwork)
          IN /\ sidebar'.width = ui'.index
             /\ sidebar'.height * r = ui'.index
             /\ a.width = tenthsToPixels(ui'.index, wallScale)
             /\ a.height * r = a.width]_vars

\* the guides of the current selection and geometry
ComputedGuides ==
  updateDistanceGuides(artworks,
                       IF selectedArtwork \in OnWall THEN selectedArtwork ELSE 0,
                       guidesEnabled, wall, wallScale)

\* C18: in every reachable state the guides shown are the guides computed
\* from the current selection and the current geometry, and none is shown
\* when no artwork is selected or the guides are disabled.
C18_GuidesFollowGeometry == guides = ComputedGuides

\* the interiors of two boxes meet: they overlap, or one contains the other
Intersects(s, o) ==
  /\ o.left < s.right /\ s.left < o.right
  /\ o.top < s.bottom /\ s.top < o.bottom

\* C19: an artwork whose bounding box intersects the selected artwork's
\* bounding box is never chosen as its left, right, top or bottom neighbor,
\* neither in the guides computed from the state nor in the guides shown
\* by the handler that has just computed them.
C19_IntersectingNeverNeighbor ==
  /\ [](selectedArtwork \in OnWall
          => \A side \in Sides :
               LET n == Nearest(side, artworks, selectedArtwork)
               IN n # 0 => ~Intersects(Box(Element(artworks, selectedArtwork)),
                                        Box(artworks[n])))
  /\ [][ui'.op \in {"drag", "mousedown", "drop", "toggleDistanceGuides"}
          => \A g \in guides' :
               g.to # 0 => ~Intersects(Box(Element(artworks', selectedArtwork')),
                                       Box(Element(artworks', g.to)))]_vars

\* the selected artwork dragged over another one while the guides are on,
\* the two overlapping on both axes
C19_Witness ==
  /\ ui.op = "drag"
  /\ guidesEnabled
  /\ guides # {}
  /\ \E i \in 1..Len(artworks) :
       /\ artworks[i].id # selectedArtwork
       /\ Intersects(Box(Element(artworks, selectedArtwork)), Box(artworks[i]))
       /\ verticalOverlap(Box(Element(artworks, selectedArtwork)), Box(artworks[i])) > 0
       /\ horizontalOverlap(Box(Element(artworks, selectedArtwork)), Box(artworks[i])) > 0

\* C20: a decode completion whose artwork is no longer on the wall changes
\* no application state: no artwork on the wall, not the artworkAspectRatios
\* map, not the selection, nor anything else.
C20_DecodeAfterRemovalIsNoOp ==
  [][(/\ ui'.op = "decode"
      /\ \E d \in pendingDecodes \ pendingDecodes' : d.id \notin OnWall)
       => UNCHANGED << storeVars, wallVars, artworks, artworkCounter,
                       artworkAspectRatios, selectedArtwork, modeVars, collVars,
                       fileVars, panelVars, restVars >>]_vars

\* the element's box is its image box plus the frame and matte paddings
BoxMatchesBorders(a) ==
  a.frameDisplay # "none"
    => /\ a.width = a.imgW + 2 * (a.framePadding + a.mattePadding)
       /\ a.height = a.imgH + 2 * (a.framePadding + a.mattePadding)

\* C21: a decode completion that follows user edits of its artwork leaves
\* the artwork consistent: its total box is still the image box plus the
\* enabled frame and matte borders, and when the last handler was a drag of
\* that artwork the dragged position is kept.
C21_DecodeKeepsEdits ==
  [][ui'.op = "decode"
       => \A d \in pendingDecodes \ pendingDecodes' :
            d.id \in OnWall
              => /\ BoxMatchesBorders(Element(artworks', d.id))
                 /\ (ui.op = "drag" /\ selectedArtwork = d.id)
                      => /\ Element(artworks', d.id).left = Element(artworks, d.id).left
                         /\ Element(artworks', d.id).top = Element(artworks, d.id).top]_vars

\* loadLayout runs on the layout that saveLayout has just pushed
LoadsJustSaved ==
  /\ ui.op = "saveLayout"
  /\ ui'.op = "loadLayout"
  /\ ui'.index = Len(savedLayouts)

\* the flags saveLayout reads off an element
hasFrame(a) == a.frameDisplay # "none" /\ a.frameColor # "transparent"
hasMatte(a) == a.matteDisplay # "none" /\ a.matteColor # "transparent"

\* same count and order, and per artwork the same image, position, total
\* size and frame and matte flags
SameBoxesAndFlags ==
  /\ Len(artworks') = Len(artworks)
  /\ \A i \in 1..Len(artworks) :
       /\ artworks'[i].src = artworks[i].src
       /\ artworks'[i].left = artworks[i].left
       /\ artworks'[i].top = artworks[i].top
       /\ artworks'[i].width = artworks[i].width
       /\ artworks'[i].height = artworks[i].height
       /\ hasFrame(artworks'[i]) = hasFrame(artworks[i])
       /\ hasMatte(artworks'[i]) = hasMatte(artworks[i])

\* a colour that was never set reads as transparent
ColorOrTransparent(c) == IF c = "" THEN "transparent" ELSE c

\* an artwork without a stored ratio counts as ratio 1
RatioOrOne(r) == IF r = 0 THEN 1 ELSE r

Qualifying(side) ==
  { i \in 1..Len(artworks) :
      /\ artworks[i].id # selectedArtwork
      /\ Beyond(side, Box(Element(artworks, selectedArtwork)), Box(artworks[i]))
      /\ Facing(side, Box(Element(artworks, selectedArtwork)), Box(artworks[i])) > 0 }

\* a handler that has just run updateDistanceGuides on a selected artwork
\* with the guides enabled
GuidesDrawn ==
  /\ ui.op \in {"drag", "mousedown", "toggleDistanceGuides"}
  /\ guidesEnabled
  /\ selectedArtwork \in OnWall

\* C23: in each of the four directions the neighbor that a guide targets is
\* a qualifying artwork whose gap is minimal among the qualifying artworks,
\* and a direction with a qualifying artwork gets such a guide; in a
\* direction without a qualifying artwork the guide targets the wall edge
\* and measures the distance from the artwork's edge to that wall boundary.
C23_NearestQualifyingOrWall ==
  GuidesDrawn
    => \A side \in Sides :
         LET s == Box(Element(artworks, selectedArtwork))
             q == Qualifying(side)
             shown == { g \in guides : g.side = side }
         IN IF q # {}
            THEN /\ Cardinality(shown) = 1
                 /\ \A g \in shown :
                      /\ \E i \in q : artworks[i].id = g.to
                      /\ g.dist = Gap(side, s, Box(Element(artworks, g.to)))
                      /\ \A j \in q : g.dist <= Gap(side, s, Box(artworks[j]))
            ELSE /\ Cardinality(shown) <= 1
                 /\ \A g \in shown :
                      g.to = 0 /\ g.dist = WallGap(side, s, wall)
                 /\ WallGap(side, s, wall) > 0 => shown # {}

\* two artworks qualify on one side at different gaps, and another side has
\* no artwork and a guide to the wall edge
C23_Witness ==
  /\ GuidesDrawn
  /\ \E side \in Sides :
       \E i, j \in Qualifying(side) :
         /\ i < j
         /\ Gap(side, Box(Element(artworks, selectedArtwork)), Box(artworks[j]))
              < Gap(side, Box(Element(artworks, selectedArtwork)), Box(artworks[i]))
         /\ \E g \in guides : g.side = side /\ g.to = artworks[j].id
  /\ \E side \in Sides :
       /\ Qualifying(side) = {}
       /\ \E g \in guides : g.side = side /\ g.to = 0 /\ g.dist > 0

\* C24: every guide that is drawn measures a strictly positive gap: no guide
\* is drawn in a direction whose gap is 0, to the wall edge or to a
\* neighboring artwork that the selected artwork touches edge to edge.
C24_GuidesMeasurePositiveGap ==
  GuidesDrawn => \A g \in guides : g.dist > 0

\* the midpoint, in quarter pixels, of the segment the two boxes share on the
\* axis perpendicular to the side
OverlapMidpoint(side, s, o) ==
  IF side \in {"left", "right"}
  THEN 2 * (Max(s.top, o.top) + Min(s.bottom, o.bottom))
  ELSE 2 * (Max(s.left, o.left) + Min(s.right, o.right))

\* the centre line, in quarter pixels, of the selected box on that axis
CenterLine(side, s) ==
  IF side \in {"left", "right"}
  THEN 4 * s.top + 2 * s.height
  ELSE 4 * s.left + 2 * s.width

\* the coordinate, in quarter pixels, at which a guide is placed
Placed(g) == IF g.side \in {"left", "right"} THEN g.y1 ELSE g.x1

\* C25: a guide to a neighbor is placed at the midpoint of the overlap
\* segment of the two boxes on the perpendicular axis, so that its line
\* meets both boxes; a guide to the wall edge is placed on the selected
\* box's own centre line.
C25_GuideAtOverlapMidpoint ==
  GuidesDrawn
    => \A g \in guides :
         LET s == Box(Element(artworks, selectedArtwork))
         IN IF g.to # 0
            THEN Placed(g) = OverlapMidpoint(g.side, s, Box(Element(artworks, g.to)))
            ELSE Placed(g) = CenterLine(g.side, s)

\* the frame and matte state of an element
Framing(a) ==
  [frameDisplay |-> a.frameDisplay, frameColor |-> a.frameColor,
   matteDisplay |-> a.matteDisplay, matteColor |-> a.matteColor,
   framePadding |-> a.framePadding, mattePadding |-> a.mattePadding,
   directImg |-> a.directImg]

\* C26: a handler whose numeric input is empty or unparsable aborts without
\* partial mutation: updateWall leaves wallScale and the wall's pixel size
\* as they were, updateSelectedArtwork leaves the selected artwork's pixel
\* size and frame and matte state as they were; and wallScale is a finite
\* number greater than 0 in every reachable state.
C26_BlankInputAborts ==
  /\ [][(ui'.op = "editWallBlank"
            => /\ wallScale' = wallScale
               /\ wall'.displayWidth = wall.displayWidth
               /\ wall'.displayHeight = wall.displayHeight)
         /\ (ui'.op = "updateSelectedArtworkBlank"
              => /\ Element(artworks', selectedArtwork).width
                     = Element(artworks, selectedArtwork).width
                 /\ Element(artworks', selectedArtwork).height
                     = Element(artworks, selectedArtwork).height
                 /\ Framing(Element(artworks', selectedArtwork))
                     = Framing(Element(artworks, selectedArtwork)))]_vars
  /\ [](wallScale # NaN /\ wallScale > 0)

\* the grid cell an element sits at is where its top left corner is
Cell(a) == << a.left, a.top >>

\* C27: an artwork created by a file read of handleImageUpload gets a grid
\* cell that no artwork still sitting at its upload position occupies, across
\* uploads, deletions and file-read completions in any order.
C27_UploadCellsNeverCollide ==
  [][ui'.op = "fileRead"
       => \A i \in 1..Len(artworks) :
            Cell(artworks[i]) # Cell(artworks'[Len(artworks')])]_vars

\* C28: in every reachable state selectedArtwork is null or an artwork on
\* the wall; deleteSelected removes the selected artwork and clears the
\* selection, and clearWall and loadLayout clear the selection when they
\* remove the artworks.
C28_SelectionIsOnWall ==
  /\ [](selectedArtwork = 0 \/ selectedArtwork \in OnWall)
  /\ [][(ui'.op = "deleteSelected" /\ selectedArtwork # 0)
          => (selectedArtwork \notin OnWall' /\ selectedArtwork' = 0)]_vars
  /\ [][(ui'.op \in {"clearWall", "loadLayout"} /\ OnWall \ OnWall' # {})
          => (selectedArtwork' = 0 /\ OnWall \cap OnWall' = {})]_vars

\* the selected one of two artworks has been deleted
C28_Witness ==
  /\ ui.op = "deleteSelected"
  /\ selectedArtwork = 0
  /\ Len(artworks) = 1
  /\ artworkCounter = 2
  /\ artworks[1].id = 1

\* C29: the selection variable and the visible selection mark agree in every
\* reachable state: selectedArtwork is non-null exactly when one artwork
\* carries the 'selected' mark, and that artwork is selectedArtwork, also
\* after entering and leaving room-preview mode.
C29_SelectionMatchesMark ==
  /\ selectedArtwork # 0 <=> Cardinality(Marked) = 1
  /\ \A i \in 1..Len(artworks) :
       artworks[i].selected => artworks[i].id = selectedArtwork

\* updateSelectedArtwork runs right after selectArtwork with the settings
\* the sidebar shows
ReappliesUnchanged ==
  /\ ui.op = "mousedown"
  /\ ui'.op = "updateSelectedArtwork"
  /\ sidebar' = sidebar

\* C30: re-applying unchanged settings through updateSelectedArtwork right
\* after selectArtwork leaves the total bounding box of the selected artwork
\* unchanged, also for an artwork framed while another frame width was in
\* the sidebar and for a framed artwork restored by loadLayout.
C30_ReapplyKeepsBox ==
  [][ReappliesUnchanged
       => /\ Element(artworks', selectedArtwork).width
               = Element(artworks, selectedArtwork).width
          /\ Element(artworks', selectedArtwork).height
               = Element(artworks, selectedArtwork).height]_vars

====
